---- MODULE Spec2Model ----
(***************************************************************************)
(* Model of the Kaiten -> Planka migration engine                          *)
(* (migrator.py: KaitenToPlankaMigrator) together with the parts of the    *)
(* two API clients (kaiten_client/client.py, planka_client/client.py)      *)
(* that decide what the engine sees.                                       *)
(*                                                                         *)
(* The engine is a sequential program.  Its position is pc; every action   *)
(* runs the code from one external call up to the next one.  The source    *)
(* and the target are the environment: the answer of every call is drawn   *)
(* from the small set of answers the client code distinguishes.            *)
(***************************************************************************)
EXTENDS Naturals, Integers, Sequences, FiniteSets, TLC

\* ------------------------------------------------------------------ bounds
MaxUsers      == 2      \* source users
NumEmails     == 2      \* distinct e-mail addresses
MaxSpaces     == 2      \* source spaces
MaxBoards     == 2      \* boards of one space
MaxCols       == 2      \* columns of one board
MaxCards      == 2      \* cards of one board
MaxChecklists == 2      \* checklists of one card
MaxItems      == 2      \* items of one checklist
MaxAtt        == 2      \* attachments of one card
MaxComments   == 1      \* comments of one card
MaxLinks      == 1      \* external links of one card
MaxTags       == 1      \* source tags
MaxCalls      == 2      \* operations invoked on one migrator instance
MaxTProjects  == 2      \* projects the target holds at cleanup
MaxTBoards    == 2      \* boards of one target project
MaxTLists     == 2      \* lists of one target board
MaxTCards     == 2      \* cards of one target list
MaxPages      == 2      \* pages of a paginated source collection
MaxPerPage    == 2      \* items on one page

\* ------------------------------------------------------- program constants
None == 0                                  \* Python None / JSON null / absent
MaxAttachmentBytes == 10485760             \* 10 * 1024 * 1024

Emails   == 1..NumEmails
NoEmail  == None                           \* user.get('email') is None or ''
Missing  == -1                             \* key not present in a dict
NoHeader == -1                             \* no content-length header
Sizes    == {MaxAttachmentBytes - 1, MaxAttachmentBytes, MaxAttachmentBytes + 1}

\* ------------------------------------------------------------------- state
VARIABLES
  pc,               \* position of the engine
  entry,            \* the operation that was invoked from outside
  \* --- migrate_users
  plankaUsers,      \* target users that exist before the run (records)
  nUsers,           \* len(kaiten_users)
  ui,               \* index of the user loop
  planka_emails,    \* the set built at migrator.py:34
  curUser,          \* the user record of the last iteration
  userCreates,      \* e-mail -> number of create_user calls issued
  \* --- migrate_all
  nSpaces, si,      \* len(kaiten_spaces), index of the space loop
  project,          \* result of create_project for the current space
  subtreeTouched,   \* a create_board/list/card call was issued under this space
  nBoards, bi,      \* len(kaiten_boards), index of the board loop
  boardCalls,       \* create_board calls issued in the current board loop
  boardLog,         \* these calls, in order: source index, position, stored
  \* --- migrate_lists_and_cards
  planka_board_id,  \* target board handed to migrate_lists_and_cards
  srcCols, srcCards,\* columns / cards the source board holds
  nCols, ci,        \* len(kaiten_columns), index of the column loop
  column_to_list_map, \* insertion ordered dict: sequence of <<column, list>>
  default_list_id,  \* id of the "Default List" (Missing while unbound)
  boardLists,       \* ids of the lists the target created on this board
  fallback,         \* create_list calls for "Default List" and the last result
  nCards, ki,       \* len(kaiten_cards), index of the card loop
  cardsRead,        \* the card loop was entered
  lastCard,         \* what the last iteration of the card loop did
  planka_card_id,   \* target card handed to the sub-migrations
  \* --- migrate_checklists
  nChecklists, qi,  \* len(kaiten_checklists), index of the checklist loop
  nItems, ii,       \* len(items), index of the item loop
  tl_id,            \* id of the task-list being filled (None: no container)
  tlTasks,          \* tasks the target stored in that task-list
  clDetails,        \* get_checklist_details calls of this call
  cardTaskLists,    \* task-lists the target stored on the card in this call
  clCalls,          \* client operation -> calls issued by this call
  \* --- migrate_attachments
  nAtt, ai,         \* len(kaiten_attachments), index of the attachment loop
  curAtt,           \* the attachment being transferred
  tmpFiles,         \* temporary files of this call that exist on disk
  lastAtt,          \* what the last iteration of the attachment loop did
  \* --- migrate_comments / migrate_external_links
  nComments, mi,
  withText,         \* comments of this call that had a non-empty text
  cardComments,     \* comments the target stored on the card in this call
  nLinks, li,
  \* --- the migrator instance (migrator.py:15-21) and migrate_tags
  calls,            \* operations invoked on the instance before the current one
  nTags, gi,        \* len(kaiten_tags), index of the tag loop
  kaiten_to_planka_user_map,   \* source user id  -> target user id
  kaiten_to_planka_board_map,  \* source board id -> target board id
  kaiten_to_planka_list_map,   \* source column id -> target list id
  kaiten_to_planka_label_map,  \* source tag id   -> target label id
  \* --- the target (what it has stored on behalf of this instance)
  plankaProjects,   \* ids of the projects the target has created
  plankaBoards,     \* ids of the boards the target has created
  \* --- cleanup (PlankaClient.delete_*): one frame per running call
  db,               \* delete_board_with_contents
  dp,               \* delete_project
  da,               \* delete_all_boards_and_projects
  mv,               \* move_board_with_content (manage_projects.py)
  \* --- discovery: list_kaiten_projects / list_kaiten_cards
  srv,              \* the collection at the source: the size of each page
  page,             \* number of the page requested last (1-based)
  data,             \* data.get('data', []) of the last response (item ids)
  idx,              \* items of data that were yielded
  total_pages,      \* pagination.total_pages of the last response (Missing: absent)
  remaining,        \* X-RateLimit-Remaining of the last response (Missing: absent)
  reset_time,       \* X-RateLimit-Reset minus time.time() (Missing: absent)
  wait_time,        \* seconds slept while handling the last response (0: none)
  yielded           \* the items the generator has yielded, in order

ctlVars   == <<pc, entry>>
userVars  == <<plankaUsers, nUsers, ui, planka_emails, curUser, userCreates>>
spaceVars == <<nSpaces, si, project, subtreeTouched, nBoards, bi, boardCalls,
               boardLog>>
boardVars == <<planka_board_id, srcCols, srcCards, nCols, ci, column_to_list_map,
               default_list_id, boardLists, fallback, nCards, ki, cardsRead,
               lastCard, planka_card_id>>
clVars    == <<nChecklists, qi, nItems, ii, tl_id, tlTasks, clDetails,
               cardTaskLists, clCalls>>
attVars   == <<nAtt, ai, curAtt, tmpFiles, lastAtt>>
comVars   == <<nComments, mi, withText, cardComments>>
linkVars  == <<nLinks, li>>
subVars   == <<clVars, attVars, comVars, linkVars>>
tableVars == <<kaiten_to_planka_user_map, kaiten_to_planka_board_map,
               kaiten_to_planka_list_map, kaiten_to_planka_label_map>>
instVars  == <<calls, nTags, gi, tableVars>>
targetVars == <<plankaProjects, plankaBoards>>
cleanVars == <<db, dp, da, mv>>
migVars   == <<userVars, spaceVars, boardVars, subVars, instVars, targetVars>>
readerVars == <<srv, page, data, idx, total_pages, remaining, reset_time,
                wait_time, yielded>>
vars      == <<ctlVars, migVars, cleanVars, readerVars>>

\* ------------------------------------------------------ target writer
\* Answers of the target to one create request, as the client tells them
\* apart: "ok" = 200/201 with item.id, "noid" = 200/201 whose body has no
\* item (or no id in it), "fail" = any other status or a raised error.
\* A request under a parent id of None addresses no entity: it never yields
\* 200/201.
Outcomes(parent) == IF parent = None THEN {"fail"} ELSE {"ok", "noid", "fail"}

\* The target stored a new entity (it answered 200/201).
Stored(o) == o \in {"ok", "noid"}

\* Identifiers the target hands out.  They are unique among the children of
\* one parent, which is all the engine relies on: the n-th project, board of
\* a project, list of a board, card of a board, task-list of a card.
ProjectId(n)  == 40 + n
BoardId(n)    == 50 + n
ListId(n)     == 10 + n
CardId(n)     == 20 + n
TaskListId(n) == 30 + n
UserId(n)     == 100 + n
LabelId(n)    == 60 + n

\* The target never hands out an identifier twice: what it creates during
\* a later operation on the same migrator instance gets other identifiers.
FreshId(id) == id + 1000 * calls

\* Source identifiers: the n-th source user, the n-th board of the s-th
\* space (0-based s), the n-th column of a board, the n-th tag.
SourceUserIds  == 1..MaxUsers
SourceBoardIds == 1..(MaxSpaces * MaxBoards)
SourceColIds   == 1..MaxCols
SourceTagIds   == 1..MaxTags
SourceBoardId(s, n) == s * MaxBoards + n

\* A dict returned by a client call: has = the key 'id' is present.
EmptyDict == [has |-> FALSE, id |-> None]

\* 'x and "id" in x'  (an empty dict is falsy, so the first conjunct follows)
HasIdKey(r) == r.has

\* PlankaClient.create_project / create_board / create_list / create_card /
\* upload_attachment / create_external_link: on 200/201 the dict is built
\* with item.get('id'), so the key 'id' is always present, its value may be
\* None; every other answer gives {}.
create_project(o, id) ==
  IF o = "ok" THEN [has |-> TRUE, id |-> id]
  ELSE IF o = "noid" THEN [has |-> TRUE, id |-> None]
  ELSE EmptyDict

create_board_mut(o, id) == [has |-> TRUE, id |-> id]

create_board(o, id) ==
  IF o = "ok" THEN [has |-> TRUE, id |-> id]
  ELSE IF o = "noid" THEN [has |-> TRUE, id |-> None]
  ELSE EmptyDict

create_list(o, id) ==
  IF o = "ok" THEN [has |-> TRUE, id |-> id]
  ELSE IF o = "noid" THEN [has |-> TRUE, id |-> None]
  ELSE EmptyDict

create_card(o, id) ==
  IF o = "ok" THEN [has |-> TRUE, id |-> id]
  ELSE IF o = "noid" THEN [has |-> TRUE, id |-> None]
  ELSE EmptyDict

create_label(o, id) ==
  IF o = "ok" THEN [has |-> TRUE, id |-> id]
  ELSE IF o = "noid" THEN [has |-> TRUE, id |-> None]
  ELSE EmptyDict

create_external_link(o, id) ==
  IF o = "ok" THEN [has |-> TRUE, id |-> id]
  ELSE IF o = "noid" THEN [has |-> TRUE, id |-> None]
  ELSE EmptyDict

\* PlankaClient.create_user: plankapy call inside try, {} on any error.
create_user(o, id) == IF o = "ok" THEN [has |-> TRUE, id |-> id] ELSE EmptyDict

\* PlankaClient.get_users: the dicts carry id, name and username only.
PlankaGetUsers(ok, users) ==
  IF ok THEN {[id |-> u.id, name |-> u.name, username |-> u.username] : u \in users}
  ELSE {}

\* migrator.py:34  {user['email'] for user in planka_users if 'email' in user}
PlankaEmails(users) == {u.email : u \in {v \in users : "email" \in DOMAIN v}}

\* The users the target may hold before the run.
TargetUser(e) == [id |-> 100 + e, name |-> e, username |-> e, email |-> e]

\* ------------------------------------------------------------ defaults
NoCard == [column_id |-> Missing, hasTitle |-> TRUE, mapped |-> FALSE,
           issued |-> FALSE, list |-> None, warned |-> FALSE]
NoAtt  == [hasUrl |-> FALSE, dl |-> "none", declared |-> NoHeader,
           actual |-> 0, posts |-> 0, up |-> "none"]
NoFallback == [calls |-> 0, result |-> EmptyDict]

UserInit ==
  /\ nUsers = 0 /\ ui = 0 /\ planka_emails = {}
  /\ curUser = [email |-> NoEmail, hasName |-> TRUE]
  /\ userCreates = [e \in Emails |-> 0]

SpaceInit ==
  /\ nSpaces = 0 /\ si = 0 /\ project = EmptyDict /\ subtreeTouched = FALSE
  /\ nBoards = 0 /\ bi = 0 /\ boardCalls = 0 /\ boardLog = <<>>

\* The target holds nothing that this instance has created.
TargetInit == plankaProjects = {} /\ plankaBoards = {}

BoardReset ==
  /\ nCols' = 0 /\ ci' = 0 /\ column_to_list_map' = <<>>
  /\ default_list_id' = Missing /\ boardLists' = {} /\ fallback' = NoFallback
  /\ nCards' = 0 /\ ki' = 0 /\ cardsRead' = FALSE /\ lastCard' = NoCard
  /\ planka_card_id' = None

BoardInit ==
  /\ nCols = 0 /\ ci = 0 /\ column_to_list_map = <<>>
  /\ default_list_id = Missing /\ boardLists = {} /\ fallback = NoFallback
  /\ nCards = 0 /\ ki = 0 /\ cardsRead = FALSE /\ lastCard = NoCard

\* The operations of PlankaClient that write checklists (client.py:241-295,
\* 863-995), none of them called yet.
ChecklistOps == {"create_checklist", "create_checklist_item",
                 "create_task_list", "create_task_in_list"}
NoClCalls == [op \in ChecklistOps |-> 0]

ClInit   == /\ nChecklists = 0 /\ qi = 0 /\ nItems = 0 /\ ii = 0 /\ tl_id = None
            /\ tlTasks = 0 /\ clDetails = 0 /\ cardTaskLists = 0
            /\ clCalls = NoClCalls
ClReset  == /\ nChecklists' = 0 /\ qi' = 0 /\ nItems' = 0 /\ ii' = 0 /\ tl_id' = None
            /\ tlTasks' = 0 /\ clDetails' = 0 /\ cardTaskLists' = 0
            /\ clCalls' = NoClCalls
AttInit  == nAtt = 0 /\ ai = 0 /\ curAtt = NoAtt /\ tmpFiles = 0 /\ lastAtt = NoAtt
ComInit  == nComments = 0 /\ mi = 0 /\ withText = 0 /\ cardComments = 0
LinkInit == nLinks = 0 /\ li = 0
SubInit  == ClInit /\ AttInit /\ ComInit /\ LinkInit

\* migrator.py:18-21: the four tables start empty (Missing = no entry).
InstInit ==
  /\ calls = 0 /\ nTags = 0 /\ gi = 0
  /\ kaiten_to_planka_user_map  = [k \in SourceUserIds  |-> Missing]
  /\ kaiten_to_planka_board_map = [k \in SourceBoardIds |-> Missing]
  /\ kaiten_to_planka_list_map  = [k \in SourceColIds   |-> Missing]
  /\ kaiten_to_planka_label_map = [k \in SourceTagIds   |-> Missing]

\* KaitenClient.get_boards_for_space / get_columns / get_cards
\* (kaiten_client/client.py:60-74, 44-58, 88-97): the length of the list the
\* reader returns when the source holds n elements: every failure (a status
\* other than 200, a raised error) is logged and answered with [].
get_boards_for_space_mut(readOk, n) == IF readOk THEN n ELSE Missing

get_boards_for_space(readOk, n) == IF readOk THEN n ELSE 0

get_columns(readOk, n) == IF readOk THEN n ELSE 0

get_cards(readOk, n) == IF readOk THEN n ELSE 0

\* Size of the source seen by a caller that runs migrate_all several times
\* on one instance, and of a board handed to migrate_space_data: one element
\* of each kind; every other entry point draws up to the bound.
RunMax(n) == IF entry \in {"runs", "migrate_space_data", "main"} THEN 1 ELSE n

\* The 'position' field of a source board.  It is drawn where
\* migrate_space_data is the operation invoked; elsewhere every source board
\* carries the same value.
SourcePositions == IF entry = "migrate_space_data" THEN {0, 1, 5} ELSE {0}

\* migrator.py:389: 'for space in kaiten_spaces' takes the element after
\* the current one (0-based index s), on 'continue' as at the end of the body.
NextSpace_mut(s) == IF s = 0 THEN 1 ELSE 0

NextSpace(s) == s + 1

\* migrate_all returns (migrator.py:386, 419): to the outside, or to the
\* caller that may run it again.
AllReturn_mut == "users"

AllReturn == IF entry = "runs" THEN "idle" ELSE "done"

\* ------------------------------------------------------- migrate_users
\* migrate_users returns: to the outside, or to migrate_all (migrator.py:380),
\* where nothing reads the locals of the user phase any more.
UsersReturn ==
  IF entry = "migrate_users"
  THEN pc' = "done" /\ UNCHANGED userVars
  ELSE /\ pc' = IF entry = "instance" THEN "idle" ELSE "spaces"
       /\ plankaUsers' = {} /\ nUsers' = 0 /\ ui' = 0 /\ planka_emails' = {}
       /\ curUser' = [email |-> NoEmail, hasName |-> TRUE]
       /\ userCreates' = [e \in Emails |-> 0]

\* migrator.py:26-37: read the source users (KaitenClient.get_users gives []
\* on any error), return when there are none, else build planka_emails from
\* PlankaClient.get_users.
UsersStart ==
  /\ pc = "users"
  /\ \E n \in 0..RunMax(MaxUsers), tgtOk \in BOOLEAN :
       IF n = 0
       THEN UsersReturn
       ELSE /\ nUsers' = n
            /\ planka_emails' = PlankaEmails(PlankaGetUsers(tgtOk, plankaUsers))
            /\ pc' = "user_loop"
            /\ UNCHANGED <<plankaUsers, ui, curUser, userCreates>>
  /\ UNCHANGED <<entry, spaceVars, boardVars, subVars>>
  /\ UNCHANGED <<instVars, targetVars, cleanVars, readerVars>>

\* migrator.py:40-47: the user has no e-mail, or its e-mail is in planka_emails.
UserSkip ==
  /\ pc = "user_loop" /\ ui < nUsers
  /\ \E e \in Emails \cup {NoEmail}, hn \in BOOLEAN :
       /\ e = NoEmail \/ e \in planka_emails
       /\ curUser' = [email |-> e, hasName |-> hn]
  /\ ui' = ui + 1
  /\ UNCHANGED <<ctlVars, plankaUsers, nUsers, planka_emails,
                 userCreates, spaceVars, boardVars, subVars>>
  /\ UNCHANGED <<instVars, targetVars, cleanVars, readerVars>>

\* migrator.py:51-64 for a user that has 'full_name': create_user is called;
\* a result with 'id' is written to kaiten_to_planka_user_map under the
\* source id of the user (the i-th user has id i), else it is logged.
UserCreate ==
  /\ pc = "user_loop" /\ ui < nUsers
  /\ \E e \in Emails, o \in {"ok", "fail"} :
       /\ e \notin planka_emails
       /\ curUser' = [email |-> e, hasName |-> TRUE]
       /\ userCreates' = [userCreates EXCEPT ![e] = @ + 1]
       /\ LET r == create_user(o, FreshId(UserId(ui + 1))) IN
            kaiten_to_planka_user_map' =
              IF HasIdKey(r)
              THEN [kaiten_to_planka_user_map EXCEPT ![ui + 1] = r.id]
              ELSE kaiten_to_planka_user_map
  /\ ui' = ui + 1
  /\ UNCHANGED <<pc, entry, plankaUsers, nUsers, planka_emails,
                 spaceVars, boardVars, subVars, calls, nTags, gi,
                 kaiten_to_planka_board_map, kaiten_to_planka_list_map,
                 kaiten_to_planka_label_map, targetVars, cleanVars, readerVars>>

\* migrator.py:53 raises KeyError for a user without 'full_name'; the handler
\* at migrator.py:64 evaluates user['full_name'] again, so the KeyError leaves
\* migrate_users, and migrate_all (migrator.py:380) does not catch it.
UserRaise ==
  /\ pc = "user_loop" /\ ui < nUsers
  /\ \E e \in Emails :
       /\ e \notin planka_emails
       /\ curUser' = [email |-> e, hasName |-> FALSE]
  /\ pc' = "raised"
  /\ UNCHANGED <<entry, plankaUsers, nUsers, ui, planka_emails,
                 userCreates, spaceVars, boardVars, subVars>>
  /\ UNCHANGED <<instVars, targetVars, cleanVars, readerVars>>

\* end of the loop at migrator.py:39: migrate_users returns.
UsersDone ==
  /\ pc = "user_loop" /\ ui = nUsers
  /\ UsersReturn
  /\ UNCHANGED <<entry, spaceVars, boardVars, subVars>>
  /\ UNCHANGED <<instVars, targetVars, cleanVars, readerVars>>

\* --------------------------------------------------------- migrate_all
\* migrator.py:383-386: read the spaces; nothing to do when there are none
\* (KaitenClient.get_spaces gives [] on any error).
GetSpaces ==
  /\ pc = "spaces"
  /\ \E n \in 0..RunMax(MaxSpaces) :
       /\ nSpaces' = n
       /\ pc' = IF n = 0 THEN AllReturn ELSE "space_loop"
  /\ si' = 0
  /\ UNCHANGED <<entry, userVars, project, subtreeTouched,
                 nBoards, bi, boardCalls, boardLog,
                 boardVars, subVars>>
  /\ UNCHANGED <<instVars, targetVars, cleanVars, readerVars>>

\* migrator.py:395-406: create the project of the space; the space is skipped
\* when the result is falsy or has no key 'id'.
SpaceCreateProject ==
  /\ pc = "space_loop" /\ si < nSpaces
  /\ \E o \in {"ok", "noid", "fail"} :
       LET r == create_project(o, FreshId(ProjectId(si + 1))) IN
       /\ project' = r
       /\ plankaProjects' = IF Stored(o)
                            THEN plankaProjects \cup {FreshId(ProjectId(si + 1))}
                            ELSE plankaProjects
       /\ IF ~HasIdKey(r)
          THEN pc' = "space_loop" /\ si' = NextSpace(si)
          ELSE pc' = "boards" /\ si' = si
  /\ subtreeTouched' = FALSE
  /\ UNCHANGED <<entry, userVars, nSpaces, nBoards, bi, boardCalls, boardLog,
                 boardVars,
                 subVars>>
  /\ UNCHANGED <<instVars, plankaBoards, cleanVars, readerVars>>

\* migrator.py:410-415: read the boards of the space
\* (KaitenClient.get_boards_for_space gives [] on any error).
GetBoards ==
  /\ pc = "boards"
  /\ \E src \in 0..RunMax(MaxBoards), readOk \in BOOLEAN :
       LET n == get_boards_for_space(readOk, src) IN
       /\ nBoards' = n
       /\ IF n = 0
          THEN pc' = "space_loop" /\ si' = NextSpace(si)
          ELSE pc' = "board_loop" /\ si' = si
  /\ bi' = 0 /\ boardCalls' = 0 /\ boardLog' = <<>>
  /\ UNCHANGED <<entry, userVars, nSpaces, project,
                 subtreeTouched, boardVars, subVars>>
  /\ UNCHANGED <<instVars, targetVars, cleanVars, readerVars>>

\* ---------------------------------------------------- migrate_space_data
\* migrator.py:354-358: the loop body starts with create_board; whether the
\* source board already has an entry in kaiten_to_planka_board_map is not
\* looked at (the table is only written, at migrator.py:362).
\* migrator.py:367-368: the handler of a failed board writes a log record;
\* what the target holds stays as it is.
BoardFailureHandler_mut(created) == {}

BoardFailureHandler(created) == created

\* migrator.py:354, 358: position=i, the index of enumerate(kaiten_boards);
\* the board's own 'position' is not read.
BoardPosition_mut(i, srcPos) == srcPos

BoardPosition(i, srcPos) == i

AlreadyMigrated_mut(table, k) == table[k] # Missing

AlreadyMigrated(table, k) == FALSE

\* migrator.py:354-368: create_board with project_id = project['id'];
\* planka_board['id'] raises KeyError on {} and the handler skips the board;
\* else the id is assigned to kaiten_to_planka_board_map[kaiten_board['id']].
BoardCreate ==
  /\ pc = "board_loop" /\ bi < nBoards
  /\ IF AlreadyMigrated(kaiten_to_planka_board_map, SourceBoardId(si, bi + 1))
     THEN /\ pc' = "board_loop" /\ bi' = bi + 1
          /\ UNCHANGED <<planka_board_id, srcCols, srcCards, boardCalls, boardLog,
                         kaiten_to_planka_board_map, plankaBoards,
                         plankaProjects>>
     ELSE \E o \in Outcomes(project.id), nc \in 0..RunMax(MaxCols),
             nk \in 0..RunMax(MaxCards), srcPos \in SourcePositions :
       LET r == create_board(o, FreshId(BoardId(bi + 1))) IN
       /\ boardCalls' = boardCalls + 1
       /\ boardLog' = Append(boardLog,
                       [source |-> bi + 1, srcPosition |-> srcPos,
                        position |-> BoardPosition(bi, srcPos),
                        stored |-> Stored(o)])
       /\ plankaBoards' = IF Stored(o)
                          THEN plankaBoards \cup {FreshId(BoardId(bi + 1))}
                          ELSE plankaBoards
       /\ IF ~HasIdKey(r)
          THEN /\ pc' = "board_loop" /\ bi' = bi + 1
               /\ plankaProjects' = BoardFailureHandler(plankaProjects)
               /\ UNCHANGED <<planka_board_id, srcCols, srcCards,
                              kaiten_to_planka_board_map>>
          ELSE /\ pc' = "columns" /\ bi' = bi
               /\ plankaProjects' = plankaProjects
               /\ kaiten_to_planka_board_map' =
                    [kaiten_to_planka_board_map
                       EXCEPT ![SourceBoardId(si, bi + 1)] = r.id]
               /\ planka_board_id' = r.id
               /\ srcCols' = nc /\ srcCards' = nk
  /\ subtreeTouched' = TRUE
  /\ BoardReset
  /\ UNCHANGED <<entry, userVars, nSpaces, si, project, nBoards, subVars,
                 calls, nTags, gi, kaiten_to_planka_user_map,
                 kaiten_to_planka_list_map, kaiten_to_planka_label_map,
                 cleanVars, readerVars>>

\* end of the loop at migrator.py:354: migrate_space_data returns, to the
\* outside or to migrate_all, which takes the next space.
BoardsDone ==
  /\ pc = "board_loop" /\ bi = nBoards
  /\ IF entry = "instance"
     THEN pc' = "idle" /\ si' = si
     ELSE IF entry = "migrate_space_data"
     THEN pc' = "done" /\ si' = si
     ELSE pc' = "space_loop" /\ si' = NextSpace(si)
  /\ UNCHANGED <<entry, userVars, nSpaces, project,
                 subtreeTouched, nBoards, bi, boardCalls, boardLog,
                 boardVars, subVars>>
  /\ UNCHANGED <<instVars, targetVars, cleanVars, readerVars>>

\* end of the loop at migrator.py:389: migrate_all returns.
SpacesDone ==
  /\ pc = "space_loop" /\ si = nSpaces
  /\ pc' = AllReturn
  /\ UNCHANGED <<entry, userVars, spaceVars, boardVars, subVars>>
  /\ UNCHANGED <<instVars, targetVars, cleanVars, readerVars>>

\* ------------------------------------------------ migrate_lists_and_cards
\* dict helpers for column_to_list_map (a Python dict keeps insertion order)
InMap(m, k)  == \E j \in 1..Len(m) : m[j][1] = k
Lookup_mut(m, k) == m[1][2]

Lookup(m, k) == m[CHOOSE j \in 1..Len(m) : m[j][1] = k][2]
\* next(iter(column_to_list_map.values()))
FirstValue(m) == m[1][2]

\* migrator.py:117-119: the branch taken for a column_id without mapping
\* assigns target_list_id and calls no logger; the only log records of an
\* iteration are the info at migrator.py:133 and the errors at 147 and 149.
OrphanWarningLogged(column_id, m) == FALSE

\* migrator.py:114-122: the list a card goes to.
TargetListId_mut(column_id, m, dflt) ==
  IF column_id # Missing /\ InMap(m, column_id) THEN Lookup(m, column_id)
  ELSE IF m # <<>> THEN FirstValue(m)
  ELSE None

TargetListId(column_id, m, dflt) ==
  IF column_id # Missing /\ InMap(m, column_id) THEN Lookup(m, column_id)
  ELSE IF m # <<>> THEN FirstValue(m)
  ELSE dflt

\* migrator.py:70: read the columns (KaitenClient.get_columns gives [] on
\* any error).
GetColumns ==
  /\ pc = "columns"
  /\ \E readOk \in BOOLEAN : nCols' = get_columns(readOk, srcCols)
  /\ ci' = 0 /\ column_to_list_map' = <<>>
  /\ pc' = "col_loop"
  /\ UNCHANGED <<entry, userVars, spaceVars, planka_board_id, srcCols,
                 srcCards, default_list_id, boardLists, fallback, nCards, ki,
                 cardsRead, lastCard, planka_card_id, subVars>>
  /\ UNCHANGED <<instVars, targetVars, cleanVars, readerVars>>

\* migrator.py:76-89 for a column that has 'title': create_list at position
\* i * 65535; the column is mapped when the result has the key 'id'.
\* Column i (0-based) of a board has the source id i + 1.
ColumnCreate ==
  /\ pc = "col_loop" /\ ci < nCols
  /\ \E o \in Outcomes(planka_board_id) :
       LET r == create_list(o, ListId(ci + 1)) IN
       /\ boardLists' = IF Stored(o) THEN boardLists \cup {ListId(ci + 1)}
                        ELSE boardLists
       /\ column_to_list_map' = IF HasIdKey(r)
                                THEN Append(column_to_list_map, <<ci + 1, r.id>>)
                                ELSE column_to_list_map
  /\ ci' = ci + 1
  /\ subtreeTouched' = TRUE
  /\ UNCHANGED <<pc, entry, userVars, nSpaces, si, project, nBoards, bi, boardCalls, boardLog,
                 planka_board_id, srcCols, srcCards, nCols, default_list_id,
                 fallback, nCards, ki, cardsRead, lastCard, planka_card_id, subVars>>
  /\ UNCHANGED <<instVars, targetVars, cleanVars, readerVars>>

\* migrator.py:80 raises KeyError for a column without 'title'; the handler
\* at migrator.py:89 evaluates kaiten_column['title'] again, so the KeyError
\* leaves migrate_lists_and_cards.
ColumnRaise ==
  /\ pc = "col_loop" /\ ci < nCols
  /\ pc' = "board_exc"
  /\ UNCHANGED <<entry, userVars, spaceVars, boardVars, subVars>>
  /\ UNCHANGED <<instVars, targetVars, cleanVars, readerVars>>

\* migrator.py:92  if not column_to_list_map
NeedsDefaultList_mut(m) == nCols = 0

NeedsDefaultList(m) == m = <<>>

\* migrator.py:92-103: no column was mapped, create "Default List"; return
\* when its result is falsy or has no key 'id'.
CreateDefaultList ==
  /\ pc = "col_loop" /\ ci = nCols /\ NeedsDefaultList(column_to_list_map)
  /\ \E o \in Outcomes(planka_board_id) :
       LET r == create_list(o, ListId(nCols + 1)) IN
       /\ boardLists' = IF Stored(o) THEN boardLists \cup {ListId(nCols + 1)}
                        ELSE boardLists
       /\ fallback' = [calls |-> fallback.calls + 1, result |-> r]
       /\ IF HasIdKey(r)
          THEN default_list_id' = r.id /\ pc' = "cards"
          ELSE default_list_id' = default_list_id /\ pc' = "board_ret"
  /\ subtreeTouched' = TRUE
  /\ UNCHANGED <<entry, userVars, nSpaces, si, project, nBoards, bi, boardCalls, boardLog,
                 planka_board_id, srcCols, srcCards, nCols, ci, column_to_list_map,
                 nCards, ki, cardsRead, lastCard, planka_card_id, subVars>>
  /\ UNCHANGED <<instVars, targetVars, cleanVars, readerVars>>

\* migrator.py:92: some column was mapped, no default list.
ColumnsMapped ==
  /\ pc = "col_loop" /\ ci = nCols /\ ~NeedsDefaultList(column_to_list_map)
  /\ pc' = "cards"
  /\ UNCHANGED <<entry, userVars, spaceVars, boardVars, subVars>>
  /\ UNCHANGED <<instVars, targetVars, cleanVars, readerVars>>

\* migrator.py:106: read the cards (KaitenClient.get_cards gives [] on any
\* error).
GetCards ==
  /\ pc = "cards"
  /\ \E readOk \in BOOLEAN : nCards' = get_cards(readOk, srcCards)
  /\ ki' = 0 /\ cardsRead' = TRUE
  /\ pc' = "card_loop"
  /\ UNCHANGED <<entry, userVars, spaceVars, planka_board_id, srcCols,
                 srcCards, nCols, ci, column_to_list_map, default_list_id,
                 boardLists, fallback, lastCard, planka_card_id, subVars>>
  /\ UNCHANGED <<instVars, targetVars, cleanVars, readerVars>>

\* The column_id values a source card may carry: key missing, null, the id
\* of a column of the board, or an id no column of the board has.
ColumnIds == {Missing, None} \cup (1..(MaxCols + 1))

\* migrator.py:109-147 for a card that has 'title': choose the list, call
\* create_card; when the result has the key 'id' the four sub-migrations
\* run with planka_card['id'], else the loop goes on.
CardCreate ==
  /\ pc = "card_loop" /\ ki < nCards
  /\ \E col \in ColumnIds :
       LET t == TargetListId(col, column_to_list_map, default_list_id) IN
       \E o \in Outcomes(t) :
         LET r == create_card(o, CardId(ki + 1)) IN
         /\ lastCard' = [column_id |-> col, hasTitle |-> TRUE,
                         mapped |-> (col # Missing /\ InMap(column_to_list_map, col)),
                         issued |-> TRUE, list |-> t,
                         warned |-> OrphanWarningLogged(col, column_to_list_map)]
         /\ IF HasIdKey(r)
            THEN planka_card_id' = r.id /\ pc' = "checklists" /\ ki' = ki
            ELSE planka_card_id' = planka_card_id /\ pc' = "card_loop" /\ ki' = ki + 1
  /\ subtreeTouched' = TRUE
  /\ UNCHANGED <<entry, userVars, nSpaces, si, project, nBoards, bi, boardCalls, boardLog,
                 planka_board_id, srcCols, srcCards, nCols, ci, column_to_list_map,
                 default_list_id, boardLists, fallback, nCards, cardsRead, subVars>>
  /\ UNCHANGED <<instVars, targetVars, cleanVars, readerVars>>

\* migrator.py:127 raises KeyError for a card without 'title' before
\* create_card is called; the handler at migrator.py:149 evaluates
\* kaiten_card['title'] again, so the KeyError leaves migrate_lists_and_cards.
CardRaise ==
  /\ pc = "card_loop" /\ ki < nCards
  /\ \E col \in ColumnIds :
       lastCard' = [column_id |-> col, hasTitle |-> FALSE,
                    mapped |-> (col # Missing /\ InMap(column_to_list_map, col)),
                    issued |-> FALSE,
                    list |-> TargetListId(col, column_to_list_map, default_list_id),
                    warned |-> OrphanWarningLogged(col, column_to_list_map)]
  /\ pc' = "board_exc"
  /\ UNCHANGED <<entry, userVars, spaceVars, planka_board_id, srcCols,
                 srcCards, nCols, ci, column_to_list_map, default_list_id,
                 boardLists, fallback, nCards, ki, cardsRead, planka_card_id,
                 subVars>>
  /\ UNCHANGED <<instVars, targetVars, cleanVars, readerVars>>

\* end of the loop at migrator.py:108: migrate_lists_and_cards returns.
CardsDone ==
  /\ pc = "card_loop" /\ ki = nCards
  /\ pc' = "board_ret"
  /\ UNCHANGED <<entry, userVars, spaceVars, boardVars, subVars>>
  /\ UNCHANGED <<instVars, targetVars, cleanVars, readerVars>>

\* migrate_lists_and_cards has returned: to the outside, or to
\* migrate_space_data (migrator.py:366), which takes the next board.
BoardReturn ==
  /\ pc = "board_ret"
  /\ IF entry = "migrate_lists_and_cards"
     THEN pc' = "done" /\ UNCHANGED <<bi, boardVars>>
     ELSE /\ pc' = "board_loop" /\ bi' = bi + 1
          /\ planka_board_id' = None /\ srcCols' = 0 /\ srcCards' = 0
          /\ BoardReset
  /\ UNCHANGED <<entry, userVars, nSpaces, si, project,
                 subtreeTouched, nBoards, boardCalls, boardLog,
                 subVars>>
  /\ UNCHANGED <<instVars, targetVars, cleanVars, readerVars>>

\* an error has left migrate_lists_and_cards: it reaches the outside, or the
\* handler of migrate_space_data (migrator.py:367), which takes the next board.
BoardRaise ==
  /\ pc = "board_exc"
  /\ IF entry = "migrate_lists_and_cards"
     THEN pc' = "raised" /\ UNCHANGED <<bi, boardVars>>
     ELSE /\ pc' = "board_loop" /\ bi' = bi + 1
          /\ planka_board_id' = None /\ srcCols' = 0 /\ srcCards' = 0
          /\ BoardReset
  /\ UNCHANGED <<entry, userVars, nSpaces, si, project,
                 subtreeTouched, nBoards, boardCalls, boardLog,
                 subVars>>
  /\ UNCHANGED <<instVars, targetVars, cleanVars, readerVars>>

\* What one card carries.  The sub-migrations are explored with their full
\* bounds where they, or the migration of one board, are the operation
\* invoked; in a whole run (migrate_all, or a sequence of operations on one
\* instance) a card carries at most one element of each kind.
CardMax(n) ==
  IF entry \in {"migrate_all", "instance", "runs", "migrate_space_data", "main"}
  THEN 1 ELSE n

\* ----------------------------------------------------- migrate_checklists
\* PlankaClient.create_task_list / create_task_in_list: "ok" = a dict with
\* 'id'; "fail" = {} or a dict without 'id'; "raise" = the plankapy call
\* failed and the fallback requests.post in the except branch
\* (client.py:920, client.py:985), which no try encloses, raised as well.
TaskOutcomes(parent) == IF parent = None THEN {"fail", "raise"}
                        ELSE {"ok", "fail", "raise"}

create_task_list(o, id) == IF o = "ok" THEN [has |-> TRUE, id |-> id] ELSE EmptyDict

create_task_in_list(o, id) == IF o = "ok" THEN [has |-> TRUE, id |-> id] ELSE EmptyDict

\* migrator.py:155: read the checklists of the card
\* (KaitenClient.get_checklists gives [] on any error).
ChecklistsStart ==
  /\ pc = "checklists"
  /\ \E n \in 0..CardMax(MaxChecklists) : nChecklists' = n
  /\ qi' = 0 /\ nItems' = 0 /\ ii' = 0 /\ tl_id' = None /\ tlTasks' = 0
  /\ clDetails' = 0 /\ cardTaskLists' = 0 /\ clCalls' = NoClCalls
  /\ lastCard' = NoCard
  /\ pc' = "cl_loop"
  /\ UNCHANGED <<entry, userVars, spaceVars, planka_board_id, srcCols,
                 srcCards, nCols, ci, column_to_list_map, default_list_id,
                 boardLists, fallback, nCards, ki, cardsRead, planka_card_id,
                 attVars, comVars, linkVars>>
  /\ UNCHANGED <<instVars, targetVars, cleanVars, readerVars>>

\* migrator.py:158-175: fetch the items (the details when the checklist has
\* an id, else its own 'items'), then create the task-list; without an 'id'
\* in the result the checklist is skipped; an error raised by
\* create_task_list reaches the handler at migrator.py:189.
ChecklistCreate ==
  /\ pc = "cl_loop" /\ qi < nChecklists
  /\ \E hasId \in BOOLEAN, n \in 0..CardMax(MaxItems),
        o \in TaskOutcomes(planka_card_id) :
       LET r == create_task_list(o, TaskListId(qi + 1)) IN
       /\ clDetails' = IF hasId THEN clDetails + 1 ELSE clDetails
       /\ clCalls' = [clCalls EXCEPT !["create_task_list"] = @ + 1]
       /\ IF o = "raise"
          THEN /\ pc' = "cl_ret"
               /\ UNCHANGED <<qi, nItems, ii, tl_id, tlTasks, cardTaskLists>>
          ELSE IF ~HasIdKey(r)
          THEN /\ pc' = "cl_loop" /\ qi' = qi + 1
               /\ UNCHANGED <<nItems, ii, tl_id, tlTasks, cardTaskLists>>
          ELSE /\ pc' = "item_loop"
               /\ tl_id' = r.id /\ nItems' = n /\ ii' = 0 /\ qi' = qi /\ tlTasks' = 0
               /\ cardTaskLists' = cardTaskLists + 1
  /\ UNCHANGED <<entry, userVars, spaceVars, boardVars, nChecklists,
                 attVars, comVars, linkVars>>
  /\ UNCHANGED <<instVars, targetVars, cleanVars, readerVars>>

\* migrator.py:178-188: create one item at position idx * 65535; a result
\* without 'id' is logged; an error raised by create_task_in_list reaches
\* the handler at migrator.py:189, which ends migrate_checklists.
ItemCreate ==
  /\ pc = "item_loop" /\ ii < nItems
  /\ \E o \in TaskOutcomes(tl_id) :
       /\ clCalls' = [clCalls EXCEPT !["create_task_in_list"] = @ + 1]
       /\ IF o = "raise"
          THEN pc' = "cl_ret" /\ UNCHANGED <<ii, tlTasks>>
          ELSE /\ pc' = "item_loop" /\ ii' = ii + 1
               /\ tlTasks' = IF HasIdKey(create_task_in_list(o, ii + 1))
                             THEN tlTasks + 1 ELSE tlTasks
  /\ UNCHANGED <<entry, userVars, spaceVars, boardVars, nChecklists, qi, nItems,
                 tl_id, clDetails, cardTaskLists, attVars, comVars, linkVars>>
  /\ UNCHANGED <<instVars, targetVars, cleanVars, readerVars>>

\* end of the loop at migrator.py:178: next checklist.
ItemsDone ==
  /\ pc = "item_loop" /\ ii = nItems
  /\ pc' = "cl_loop" /\ qi' = qi + 1
  /\ nItems' = 0 /\ ii' = 0 /\ tl_id' = None /\ tlTasks' = 0
  /\ UNCHANGED <<entry, userVars, spaceVars, boardVars, nChecklists, clDetails,
                 cardTaskLists, clCalls, attVars, comVars, linkVars>>
  /\ UNCHANGED <<instVars, targetVars, cleanVars, readerVars>>

\* end of the loop at migrator.py:156.
ChecklistsDone ==
  /\ pc = "cl_loop" /\ qi = nChecklists
  /\ pc' = "cl_ret"
  /\ UNCHANGED <<entry, userVars, spaceVars, boardVars, subVars>>
  /\ UNCHANGED <<instVars, targetVars, cleanVars, readerVars>>

\* migrate_checklists has returned (it never raises): to the outside, or to
\* migrate_lists_and_cards (migrator.py:136), which goes on with the
\* attachments.
ChecklistsReturn ==
  /\ pc = "cl_ret"
  /\ IF entry = "migrate_checklists"
     THEN pc' = "done" /\ UNCHANGED clVars
     ELSE pc' = "attachments" /\ ClReset
  /\ UNCHANGED <<entry, userVars, spaceVars, boardVars,
                 attVars, comVars, linkVars>>
  /\ UNCHANGED <<instVars, targetVars, cleanVars, readerVars>>

\* ---------------------------------------------------- migrate_attachments
\* migrator.py:213  content_length and int(content_length) > 10 * 1024 * 1024
DeclaredTooLarge_mut(cl) == cl # NoHeader /\ cl > MaxAttachmentBytes + 1

DeclaredTooLarge(cl) == cl # NoHeader /\ cl > MaxAttachmentBytes

\* migrator.py:224  file_size > 10 * 1024 * 1024
FileTooLarge(size) == size > MaxAttachmentBytes

\* client.py:312-317  file_size > max_size
UploadRefuses(size) == size > MaxAttachmentBytes

\* migrator.py:195: read the attachments of the card
\* (KaitenClient.get_attachments gives [] on any error).
AttachmentsStart ==
  /\ pc = "attachments"
  /\ \E n \in 0..CardMax(MaxAtt) : nAtt' = n
  /\ ai' = 0 /\ curAtt' = NoAtt /\ lastAtt' = NoAtt /\ tmpFiles' = 0
  /\ pc' = "att_loop"
  /\ UNCHANGED <<entry, userVars, spaceVars, boardVars, clVars,
                 comVars, linkVars>>
  /\ UNCHANGED <<instVars, targetVars, cleanVars, readerVars>>

\* migrator.py:199-215, 243-248: the attachment gets no temporary file: it
\* has no url, requests.get raised, the status is not 200, or the declared
\* content-length is above the ceiling.
AttachmentSkip ==
  /\ pc = "att_loop" /\ ai < nAtt
  /\ \/ lastAtt' = [NoAtt EXCEPT !.dl = "no_url"]
     \/ \E dl \in {"http_error", "raise"} :
          lastAtt' = [NoAtt EXCEPT !.hasUrl = TRUE, !.dl = dl]
     \/ \E cl \in Sizes, sz \in Sizes :
          /\ DeclaredTooLarge(cl)
          /\ lastAtt' = [hasUrl |-> TRUE, dl |-> "ok", declared |-> cl,
                         actual |-> sz, posts |-> 0, up |-> "none"]
  /\ ai' = ai + 1
  /\ UNCHANGED <<ctlVars, userVars, spaceVars, boardVars, clVars, nAtt, curAtt,
                 tmpFiles, comVars, linkVars>>
  /\ UNCHANGED <<instVars, targetVars, cleanVars, readerVars>>

\* migrator.py:218-220: the response is written to a NamedTemporaryFile
\* (delete=False).  When the write raises, the handler at migrator.py:245
\* logs and the loop goes on; the file stays.
AttachmentFetch ==
  /\ pc = "att_loop" /\ ai < nAtt
  /\ \E cl \in Sizes \cup {NoHeader}, sz \in Sizes, writeOk \in BOOLEAN :
       /\ ~DeclaredTooLarge(cl)
       /\ tmpFiles' = tmpFiles + 1
       /\ IF writeOk
          THEN /\ curAtt' = [hasUrl |-> TRUE, dl |-> "ok", declared |-> cl,
                             actual |-> sz, posts |-> 0, up |-> "none"]
               /\ pc' = "att_file" /\ ai' = ai
               /\ lastAtt' = lastAtt
          ELSE /\ curAtt' = NoAtt
               /\ pc' = "att_loop" /\ ai' = ai + 1
               /\ lastAtt' = [hasUrl |-> TRUE, dl |-> "ok", declared |-> cl,
                              actual |-> sz, posts |-> 0, up |-> "none"]
  /\ UNCHANGED <<entry, userVars, spaceVars, boardVars, clVars, nAtt,
                 comVars, linkVars>>
  /\ UNCHANGED <<instVars, targetVars, cleanVars, readerVars>>

\* migrator.py:223-227: the file on disk is above the ceiling: unlink, skip.
AttachmentOversize ==
  /\ pc = "att_file"
  /\ FileTooLarge(curAtt.actual)
  /\ tmpFiles' = tmpFiles - 1
  /\ lastAtt' = curAtt /\ curAtt' = NoAtt
  /\ pc' = "att_loop" /\ ai' = ai + 1
  /\ UNCHANGED <<entry, userVars, spaceVars, boardVars, clVars, nAtt,
                 comVars, linkVars>>
  /\ UNCHANGED <<instVars, targetVars, cleanVars, readerVars>>

\* migrator.py:230-242 with PlankaClient.upload_attachment (client.py:297-340):
\* the client posts the file unless it is above max_size; the temporary file
\* is unlinked after the call.
AttachmentUpload ==
  /\ pc = "att_file"
  /\ ~FileTooLarge(curAtt.actual)
  /\ IF UploadRefuses(curAtt.actual)
     THEN lastAtt' = curAtt
     ELSE \E o \in Outcomes(planka_card_id) :
            lastAtt' = [curAtt EXCEPT !.posts = @ + 1, !.up = o]
  /\ tmpFiles' = tmpFiles - 1
  /\ curAtt' = NoAtt
  /\ pc' = "att_loop" /\ ai' = ai + 1
  /\ UNCHANGED <<entry, userVars, spaceVars, boardVars, clVars, nAtt,
                 comVars, linkVars>>
  /\ UNCHANGED <<instVars, targetVars, cleanVars, readerVars>>

\* end of the loop at migrator.py:197: migrate_attachments returns (it never
\* raises): to the outside, or to migrate_lists_and_cards (migrator.py:139).
AttachmentsDone ==
  /\ pc = "att_loop" /\ ai = nAtt
  /\ IF entry = "migrate_attachments"
     THEN pc' = "done" /\ UNCHANGED attVars
     ELSE /\ pc' = "comments"
          /\ nAtt' = 0 /\ ai' = 0 /\ curAtt' = NoAtt /\ lastAtt' = NoAtt
          /\ tmpFiles' = 0
  /\ UNCHANGED <<entry, userVars, spaceVars, boardVars, clVars,
                 comVars, linkVars>>
  /\ UNCHANGED <<instVars, targetVars, cleanVars, readerVars>>

\* ------------------------------------------------------- migrate_comments
\* PlankaClient.create_comment (client.py:817-829) logs a warning and
\* returns {} without any request.
create_comment == EmptyDict

\* migrator.py:255: read the comments of the card
\* (KaitenClient.get_card_comments gives [] on any error).
CommentsStart ==
  /\ pc = "comments"
  /\ \E n \in 0..MaxComments : nComments' = n
  /\ mi' = 0 /\ withText' = 0 /\ cardComments' = 0
  /\ pc' = "com_loop"
  /\ UNCHANGED <<entry, userVars, spaceVars, boardVars, clVars, attVars,
                 linkVars>>
  /\ UNCHANGED <<instVars, targetVars, cleanVars, readerVars>>

\* migrator.py:258-291: a comment without text is skipped; for the others
\* create_comment is called and its result, {}, is logged as a failure.  The
\* target stores a comment only on a request, and create_comment sends none.
CommentStep ==
  /\ pc = "com_loop" /\ mi < nComments
  /\ \E hasText \in BOOLEAN :
       /\ hasText => ~HasIdKey(create_comment)
       /\ withText' = withText + (IF hasText THEN 1 ELSE 0)
       /\ cardComments' =
            cardComments + (IF hasText /\ HasIdKey(create_comment) THEN 1 ELSE 0)
  /\ mi' = mi + 1
  /\ UNCHANGED <<ctlVars, userVars, spaceVars, boardVars, clVars, attVars,
                 nComments, linkVars>>
  /\ UNCHANGED <<instVars, targetVars, cleanVars, readerVars>>

\* end of the loop at migrator.py:257: migrate_comments returns.
CommentsDone ==
  /\ pc = "com_loop" /\ mi = nComments
  /\ pc' = "links"
  /\ nComments' = 0 /\ mi' = 0 /\ withText' = 0 /\ cardComments' = 0
  /\ UNCHANGED <<entry, userVars, spaceVars, boardVars, clVars, attVars,
                 linkVars>>
  /\ UNCHANGED <<instVars, targetVars, cleanVars, readerVars>>

\* ------------------------------------------------- migrate_external_links
\* migrator.py:300: read the links of the card
\* (KaitenClient.get_card_external_links gives [] on any error).
LinksStart ==
  /\ pc = "links"
  /\ \E n \in 0..MaxLinks : nLinks' = n
  /\ li' = 0
  /\ pc' = "link_loop"
  /\ UNCHANGED <<entry, userVars, spaceVars, boardVars, clVars, attVars,
                 comVars>>
  /\ UNCHANGED <<instVars, targetVars, cleanVars, readerVars>>

\* migrator.py:303-323: a link without url is skipped; for the others
\* create_external_link is called and its result logged.
LinkStep ==
  /\ pc = "link_loop" /\ li < nLinks
  /\ \E hasUrl \in BOOLEAN, o \in Outcomes(planka_card_id) :
       hasUrl => HasIdKey(create_external_link(o, li + 1)) \in BOOLEAN
  /\ li' = li + 1
  /\ UNCHANGED <<pc, entry, userVars, spaceVars, boardVars, clVars, attVars,
                 comVars, nLinks>>
  /\ UNCHANGED <<instVars, targetVars, cleanVars, readerVars>>

\* end of the loop at migrator.py:302: migrate_external_links returns and the
\* card loop of migrate_lists_and_cards takes the next card.
LinksDone ==
  /\ pc = "link_loop" /\ li = nLinks
  /\ pc' = "card_loop" /\ ki' = ki + 1
  /\ planka_card_id' = None
  /\ nLinks' = 0 /\ li' = 0
  /\ UNCHANGED <<entry, userVars, spaceVars, planka_board_id, srcCols,
                 srcCards, nCols, ci, column_to_list_map, default_list_id,
                 boardLists, fallback, nCards, cardsRead, lastCard,
                 clVars, attVars, comVars>>
  /\ UNCHANGED <<instVars, targetVars, cleanVars, readerVars>>

\* ----------------------------------------------------------- migrate_tags
\* migrator.py:333: read the tags (KaitenClient.get_tags gives [] on any
\* error).
TagsStart ==
  /\ pc = "tags"
  /\ \E n \in 0..MaxTags : nTags' = n
  /\ gi' = 0
  /\ pc' = "tag_loop"
  /\ UNCHANGED <<entry, userVars, spaceVars, boardVars, subVars, calls,
                 tableVars, targetVars, cleanVars, readerVars>>

\* migrator.py:336-345 for a tag that has 'name': create_label;
\* planka_label['id'] raises KeyError on {} and the handler logs; else the id
\* is assigned to kaiten_to_planka_label_map[kaiten_tag['id']].
TagCreate ==
  /\ pc = "tag_loop" /\ gi < nTags
  /\ \E o \in Outcomes(planka_board_id) :
       LET r == create_label(o, FreshId(LabelId(gi + 1))) IN
       kaiten_to_planka_label_map' =
         IF HasIdKey(r)
         THEN [kaiten_to_planka_label_map EXCEPT ![gi + 1] = r.id]
         ELSE kaiten_to_planka_label_map
  /\ gi' = gi + 1
  /\ UNCHANGED <<pc, entry, userVars, spaceVars, boardVars, subVars, calls, nTags,
                 kaiten_to_planka_user_map, kaiten_to_planka_board_map,
                 kaiten_to_planka_list_map, targetVars, cleanVars, readerVars>>

\* migrator.py:339 raises KeyError for a tag without 'name'; the handler at
\* migrator.py:345 evaluates kaiten_tag['name'] again, so the KeyError leaves
\* migrate_tags.
TagRaise ==
  /\ pc = "tag_loop" /\ gi < nTags
  /\ pc' = "raised"
  /\ UNCHANGED <<entry, userVars, spaceVars, boardVars, subVars, instVars,
                 targetVars, cleanVars, readerVars>>

\* end of the loop at migrator.py:335: migrate_tags returns.
TagsDone ==
  /\ pc = "tag_loop" /\ gi = nTags
  /\ pc' = IF entry = "instance" THEN "idle" ELSE "done"
  /\ nTags' = 0 /\ gi' = 0
  /\ planka_board_id' = None
  /\ UNCHANGED <<entry, userVars, spaceVars, srcCols, srcCards, nCols, ci,
                 column_to_list_map, default_list_id, boardLists, fallback,
                 nCards, ki, cardsRead, lastCard, planka_card_id, subVars,
                 calls, tableVars, targetVars, cleanVars, readerVars>>

\* ------------------------------------------- operations on one instance
\* The caller invokes the next operation on the same migrator object:
\* migrate_users(), migrate_tags(planka_board_id) on an existing board, or
\* migrate_space_data(project_id, kaiten_boards) with the boards of the
\* first source space and an existing project.
Invoke ==
  /\ pc = "idle" /\ calls < MaxCalls
  /\ calls' = calls + 1
  /\ \/ /\ pc' = "users"
        /\ UNCHANGED <<spaceVars, boardVars>>
     \/ /\ pc' = "tags"
        /\ planka_board_id' = BoardId(1)
        /\ UNCHANGED <<spaceVars, srcCols, srcCards, nCols, ci,
                       column_to_list_map, default_list_id, boardLists,
                       fallback, nCards, ki, cardsRead, lastCard,
                       planka_card_id>>
     \/ /\ pc' = "board_loop"
        /\ \E n \in 1..MaxBoards : nBoards' = n
        /\ bi' = 0 /\ si' = 0 /\ boardCalls' = 0 /\ boardLog' = <<>>
        /\ project' = [has |-> TRUE, id |-> ProjectId(1)]
        /\ subtreeTouched' = FALSE
        /\ UNCHANGED <<nSpaces, boardVars>>
  /\ UNCHANGED <<entry, userVars, subVars, nTags, gi, tableVars, targetVars,
                 cleanVars, readerVars>>

\* The caller runs migrate_all() (migrator.py:377) on the same migrator
\* object once more; the locals of the previous run are gone.
InvokeAll ==
  /\ pc = "idle" /\ calls < MaxCalls
  /\ calls' = calls + 1
  /\ pc' = "users"
  /\ nSpaces' = 0 /\ si' = 0 /\ project' = EmptyDict /\ subtreeTouched' = FALSE
  /\ nBoards' = 0 /\ bi' = 0 /\ boardCalls' = 0 /\ boardLog' = <<>>
  /\ planka_board_id' = None /\ srcCols' = 0 /\ srcCards' = 0
  /\ BoardReset
  /\ UNCHANGED <<entry, userVars, subVars, nTags, gi, tableVars, targetVars,
                 cleanVars, readerVars>>

\* ----------------------------------------------------------------- cleanup
\* PlankaClient.delete_board_with_contents / delete_project /
\* delete_all_boards_and_projects (client.py:514-815).  The target tree is
\* the environment: what a lookup or an enumeration finds, and the answer to
\* every delete request, is drawn when the code asks.
\*
\* Answers to a delete request: "ok", an HTTPError with the given status, or
\* "exc" = any other exception (e.g. a connection error).
CardDeleteOutcomes    == {"ok", "404", "500", "exc"}
ListDeleteOutcomes    == {"ok", "404", "403", "500", "exc"}
BoardDeleteOutcomes   == {"ok", "404", "500", "exc"}
ProjectDeleteOutcomes == {"ok", "404", "422", "500", "exc"}

\* Looking an entity up in self.client.projects: it is there, it is not
\* (any more), or the request raises.
LookupOutcomes == {"found", "absent", "exc"}

\* Frames.  exit tells how the call ended, ret is the value it returned;
\* childFail: a card or list delete of this board failed with something
\* else than 404 (or 403 for a list); the pending* fields record, at the
\* moment a delete is issued for a parent, how many of its children had no
\* delete attempt yet; the missed* fields record, at the end of a loop of
\* delete_all_boards_and_projects, how many elements had no call; first is
\* the length of its first enumeration, nested tells that it has called
\* delete_board_with_contents or delete_project (no delete request is issued
\* anywhere else); failed tells that such a call returned False.
NoDb == [caller |-> "none", nLists |-> 0, li |-> 0, nCards |-> 0, ci |-> 0,
         childFail |-> FALSE, list403 |-> FALSE,
         pendingCards |-> 0, pendingLists |-> 0,
         boardOutcome |-> "none", exit |-> "none", ret |-> "none"]
NoDp == [actual |-> 0, nBoards |-> 0, bi |-> 0, enumOk |-> TRUE,
         pendingBoards |-> 0, deletes |-> 0, rn |-> 0, ri |-> 0,
         boardFailed |-> FALSE, exit |-> "none", ret |-> "none"]
NoDa == [phase |-> 0, n |-> 0, i |-> 0, nBoards |-> 0, bi |-> 0,
         first |-> 0, nested |-> FALSE,
         missedBoards |-> 0, missedProjects |-> 0,
         failed |-> FALSE, ret |-> "none"]

\* The frame of move_board_with_content before the call: the source board
\* exists, nothing was read or copied.
NoMv == [nLists |-> 0, li |-> 0, list_mapping |-> {}, lists_created |-> 0,
         nCards |-> 0, ci |-> 0, created_cards |-> 0, skipped_cards |-> 0,
         new_board |-> "none", delete_source |-> TRUE,
         sourceDeleted |-> FALSE, exit |-> "none", ret |-> "none"]

CleanInit == db = NoDb /\ dp = NoDp /\ da = NoDa /\ mv = NoMv

\* delete_all_boards_and_projects returns: to the outside, or to main()
\* (main.py:39).
DeleteAllReturn == IF entry = "main" THEN "main_check" ELSE "done"

\* end of a 'for x in xs' loop: every element had its turn
\* (client.py:549, 557, 662, 719, 786).
AllAttempted_mut(i, n) == i = n \/ i + 1 = n

AllAttempted(i, n) == i = n

\* client.py:559-571: the outcomes of card.delete() after which the card
\* loop goes on (the handlers for HTTPError and Exception only log).
CardDeleteContinues_mut(o) == o \in {"ok", "404"}

CardDeleteContinues(o) == o \in {"ok", "404", "500", "exc"}

\* client.py:574-588: the outcomes of lst.delete() after which the list loop
\* goes on (the handlers only log; 404 and 403 as warnings).
ListDeleteContinues_mut(o) == o \in {"ok", "404", "500", "exc"}

ListDeleteContinues(o) == o \in {"ok", "404", "403", "500", "exc"}

\* client.py:613-626: the value returned after board_obj.delete().
BoardDeleteResult(o) == IF o \in {"ok", "404"} THEN "True" ELSE "False"

\* client.py:664-666, 721-722, 788-790, 806-808: the results of a nested
\* delete call after which the calling loop goes on (a False is only logged).
LoopContinues_mut(r) == r = "True"

LoopContinues(r) == r \in {"True", "False"}

\* client.py:727-735: the value returned after the second project_obj.delete()
\* (every failure is an exception for the handler at client.py:732).
RetryResult_mut(o) == IF o \in {"ok", "404"} THEN "True" ELSE "False"

RetryResult(o) == IF o = "ok" THEN "True" ELSE "False"

\* client.py:810-811: the value delete_all_boards_and_projects returns after
\* its two loops, whatever the nested calls have returned.
DeleteAllResult_mut(failed) == "False"

DeleteAllResult(failed) == "True"

\* ---- delete_board_with_contents
\* client.py:527-546: look the board up; not found -> True; an error of the
\* lookup or of board_obj.lists reaches the handler at client.py:628 -> False.
DbLookup ==
  /\ pc = "db_lookup"
  /\ \E lk \in LookupOutcomes, n \in 0..MaxTLists, readOk \in BOOLEAN :
       IF lk = "absent"
       THEN db' = [db EXCEPT !.exit = "absent_initial", !.ret = "True"]
            /\ pc' = "db_ret"
       ELSE IF lk = "exc"
       THEN db' = [db EXCEPT !.exit = "lookup_error", !.ret = "False"]
            /\ pc' = "db_ret"
       ELSE IF ~readOk
       THEN db' = [db EXCEPT !.exit = "read_error", !.ret = "False"]
            /\ pc' = "db_ret"
       ELSE db' = [db EXCEPT !.nLists = n] /\ pc' = "db_list"
  /\ UNCHANGED <<entry, mv, readerVars, migVars, dp, da>>

\* client.py:549-554: next list, read its cards; an error of lst.cards
\* reaches the handler at client.py:628 -> False.
DbReadCards ==
  /\ pc = "db_list" /\ db.li < db.nLists
  /\ \E n \in 0..MaxTCards, readOk \in BOOLEAN :
       IF readOk
       THEN db' = [db EXCEPT !.nCards = n, !.ci = 0] /\ pc' = "db_card"
       ELSE db' = [db EXCEPT !.exit = "read_error", !.ret = "False"]
            /\ pc' = "db_ret"
  /\ UNCHANGED <<entry, mv, readerVars, migVars, dp, da>>

\* client.py:557-571: card.delete(); 404 is a warning, any other failure an
\* error record; the loop goes on.
DbDeleteCard ==
  /\ pc = "db_card" /\ db.ci < db.nCards
  /\ \E o \in CardDeleteOutcomes :
       IF CardDeleteContinues(o)
       THEN /\ db' = [db EXCEPT !.ci = @ + 1,
                                !.childFail = @ \/ o \notin {"ok", "404"}]
            /\ pc' = "db_card"
       ELSE /\ db' = [db EXCEPT !.childFail = TRUE, !.exit = "card_error",
                                !.ret = "False"]
            /\ pc' = "db_ret"
  /\ UNCHANGED <<entry, mv, readerVars, migVars, dp, da>>

\* client.py:573-588: after the cards, lst.delete(); 404 and 403 are
\* warnings, any other failure an error record; the loop goes on.
DbDeleteList ==
  /\ pc = "db_card" /\ AllAttempted(db.ci, db.nCards)
  /\ \E o \in ListDeleteOutcomes :
       IF ListDeleteContinues(o)
       THEN /\ db' = [db EXCEPT !.li = @ + 1, !.nCards = 0, !.ci = 0,
                                !.pendingCards = @ + (db.nCards - db.ci),
                                !.childFail = @ \/ o \notin {"ok", "404", "403"},
                                !.list403 = @ \/ o = "403"]
            /\ pc' = "db_list"
       ELSE /\ db' = [db EXCEPT !.pendingCards = @ + (db.nCards - db.ci),
                                !.childFail = @ \/ o \notin {"ok", "404", "403"},
                                !.list403 = @ \/ o = "403",
                                !.exit = "list_error", !.ret = "False"]
            /\ pc' = "db_ret"
  /\ UNCHANGED <<entry, mv, readerVars, migVars, dp, da>>

\* client.py:590-626: after the lists, look the board up again and delete
\* it: not found or 404 -> True, any other failure -> False.
DbDeleteBoard ==
  /\ pc = "db_list" /\ AllAttempted(db.li, db.nLists)
  /\ \E lk \in LookupOutcomes, o \in BoardDeleteOutcomes :
       db' = IF lk = "absent"
             THEN [db EXCEPT !.pendingLists = db.nLists - db.li,
                             !.exit = "absent_final", !.ret = "True"]
             ELSE IF lk = "exc"
             THEN [db EXCEPT !.pendingLists = db.nLists - db.li,
                             !.exit = "relookup_error", !.ret = "False"]
             ELSE [db EXCEPT !.pendingLists = db.nLists - db.li,
                             !.boardOutcome = o, !.exit = "board_delete",
                             !.ret = BoardDeleteResult(o)]
  /\ pc' = "db_ret"
  /\ UNCHANGED <<entry, mv, readerVars, migVars, dp, da>>

\* delete_board_with_contents has returned: to the outside, to the board
\* loop of delete_all_boards_and_projects (client.py:788), or to one of the
\* two board loops of delete_project (client.py:664, 721).
DbReturn ==
  /\ pc = "db_ret"
  /\ IF db.caller = "outside"
     THEN pc' = "done" /\ UNCHANGED <<db, dp, da>>
     ELSE IF db.caller = "all"
     THEN /\ db' = NoDb /\ dp' = dp
          /\ IF LoopContinues(db.ret)
             THEN /\ pc' = "da_board"
                  /\ da' = [da EXCEPT !.bi = @ + 1,
                                      !.failed = @ \/ db.ret = "False"]
             ELSE /\ pc' = DeleteAllReturn
                  /\ da' = [da EXCEPT !.failed = TRUE, !.ret = "False",
                                      !.missedBoards = @ + (da.nBoards - da.bi - 1),
                                      !.missedProjects = da.n - da.i]
     ELSE /\ db' = NoDb /\ da' = da
          /\ IF LoopContinues(db.ret)
             THEN /\ pc' = IF db.caller = "project" THEN "dp_board"
                                                    ELSE "dp_retry_board"
                  /\ dp' = IF db.caller = "project"
                           THEN [dp EXCEPT !.bi = @ + 1,
                                           !.boardFailed = @ \/ db.ret = "False"]
                           ELSE [dp EXCEPT !.ri = @ + 1,
                                           !.boardFailed = @ \/ db.ret = "False"]
             ELSE /\ pc' = "dp_ret"
                  /\ dp' = [dp EXCEPT !.boardFailed = TRUE,
                                      !.exit = "board_error", !.ret = "False"]
  /\ UNCHANGED <<entry, mv, readerVars, migVars>>

\* ---- delete_project
\* client.py:645-670: look the project up; not found -> True; an error of
\* the lookup reaches the handler at client.py:744 -> False; an error of
\* project_obj.boards is logged ("Continue anyway") and no board is visited.
DpLookup ==
  /\ pc = "dp_lookup"
  /\ \E lk \in LookupOutcomes, nb \in 0..MaxTBoards, readOk \in BOOLEAN :
       IF lk = "absent"
       THEN dp' = [dp EXCEPT !.exit = "absent_initial", !.ret = "True"]
            /\ pc' = "dp_ret"
       ELSE IF lk = "exc"
       THEN dp' = [dp EXCEPT !.exit = "lookup_error", !.ret = "False"]
            /\ pc' = "dp_ret"
       ELSE dp' = [dp EXCEPT !.actual = nb, !.enumOk = readOk,
                             !.nBoards = IF readOk THEN nb ELSE 0]
            /\ pc' = "dp_board"
  /\ UNCHANGED <<entry, mv, readerVars, migVars, db, da>>

\* client.py:662-664: delete_board_with_contents for the next board.
DpBoard ==
  /\ pc = "dp_board" /\ dp.bi < dp.nBoards
  /\ db' = [NoDb EXCEPT !.caller = "project"]
  /\ pc' = "db_lookup"
  /\ UNCHANGED <<entry, mv, readerVars, migVars, dp, da>>

\* client.py:672-699, 736-742: after the boards, look the project up again
\* and delete it: not found or 404 -> True, 422 -> the retry, any other
\* failure -> False.
DpDelete ==
  /\ pc = "dp_board" /\ AllAttempted(dp.bi, dp.nBoards)
  /\ \E lk \in LookupOutcomes, o \in ProjectDeleteOutcomes :
       LET pend == dp.actual - dp.bi IN
       IF lk = "absent"
       THEN dp' = [dp EXCEPT !.exit = "absent_final", !.ret = "True"]
            /\ pc' = "dp_ret"
       ELSE IF lk = "exc"
       THEN dp' = [dp EXCEPT !.exit = "relookup_error", !.ret = "False"]
            /\ pc' = "dp_ret"
       ELSE IF o = "ok"
       THEN dp' = [dp EXCEPT !.pendingBoards = pend, !.deletes = @ + 1,
                             !.exit = "project_delete", !.ret = "True"]
            /\ pc' = "dp_ret"
       ELSE IF o = "404"
       THEN dp' = [dp EXCEPT !.pendingBoards = pend, !.deletes = @ + 1,
                             !.exit = "absent_delete", !.ret = "True"]
            /\ pc' = "dp_ret"
       ELSE IF o = "422"
       THEN dp' = [dp EXCEPT !.pendingBoards = pend, !.deletes = @ + 1]
            /\ pc' = "dp_retry"
       ELSE dp' = [dp EXCEPT !.pendingBoards = pend, !.deletes = @ + 1,
                             !.exit = "delete_error", !.ret = "False"]
            /\ pc' = "dp_ret"
  /\ UNCHANGED <<entry, mv, readerVars, migVars, db, da>>

\* client.py:701-716, 732-735: the retry after a 422: look the project up
\* once more and read its boards; an error is logged by the handler at
\* client.py:732 -> False; a project that is not found skips both 'if
\* project_obj' blocks and reaches 'return False' at client.py:735.
DpRetry ==
  /\ pc = "dp_retry"
  /\ \E lk \in LookupOutcomes, n \in 0..MaxTBoards, readOk \in BOOLEAN :
       IF lk = "absent"
       THEN dp' = [dp EXCEPT !.exit = "absent_retry", !.ret = "False"]
            /\ pc' = "dp_ret"
       ELSE IF lk = "exc" \/ ~readOk
       THEN dp' = [dp EXCEPT !.exit = "retry_error", !.ret = "False"]
            /\ pc' = "dp_ret"
       ELSE dp' = [dp EXCEPT !.rn = n, !.ri = 0] /\ pc' = "dp_retry_board"
  /\ UNCHANGED <<entry, mv, readerVars, migVars, db, da>>

\* client.py:719-721: delete_board_with_contents for a board that is left.
DpRetryBoard ==
  /\ pc = "dp_retry_board" /\ dp.ri < dp.rn
  /\ db' = [NoDb EXCEPT !.caller = "retry"]
  /\ pc' = "db_lookup"
  /\ UNCHANGED <<entry, mv, readerVars, migVars, dp, da>>

\* client.py:727-735: the second project_obj.delete(): ok -> True; every
\* failure, a 404 included, is an exception for the handler at
\* client.py:732 -> False.
DpRetryDelete ==
  /\ pc = "dp_retry_board" /\ AllAttempted(dp.ri, dp.rn)
  /\ \E o \in ProjectDeleteOutcomes :
       dp' = IF o = "ok"
             THEN [dp EXCEPT !.deletes = @ + 1, !.exit = "project_delete",
                             !.ret = RetryResult(o)]
             ELSE IF o = "404"
             THEN [dp EXCEPT !.deletes = @ + 1, !.exit = "absent_retry_delete",
                             !.ret = RetryResult(o)]
             ELSE [dp EXCEPT !.deletes = @ + 1, !.exit = "retry_error",
                             !.ret = RetryResult(o)]
  /\ pc' = "dp_ret"
  /\ UNCHANGED <<entry, mv, readerVars, migVars, db, da>>

\* delete_project has returned: to the outside, or to the project loop of
\* delete_all_boards_and_projects (client.py:806).
DpReturn ==
  /\ pc = "dp_ret"
  /\ IF entry = "delete_project"
     THEN pc' = "done" /\ UNCHANGED <<dp, da>>
     ELSE /\ dp' = NoDp
          /\ IF LoopContinues(dp.ret)
             THEN /\ pc' = "da_proj2"
                  /\ da' = [da EXCEPT !.i = @ + 1,
                                      !.failed = @ \/ dp.ret = "False"]
             ELSE /\ pc' = DeleteAllReturn
                  /\ da' = [da EXCEPT !.failed = TRUE, !.ret = "False",
                                      !.missedProjects = da.n - da.i - 1]
  /\ UNCHANGED <<entry, mv, readerVars, migVars, db>>

\* ---- delete_all_boards_and_projects
\* client.py:761: get_projects() ([] on any error).
DaStart ==
  /\ pc = "da_start"
  /\ \E n \in 0..MaxTProjects :
       da' = [NoDa EXCEPT !.phase = 1, !.n = n, !.first = n]
  /\ pc' = "da_proj"
  /\ UNCHANGED <<entry, mv, readerVars, migVars, db, dp>>

\* client.py:765-783, 792-794: next project of the first pass: look it up
\* and read its boards; a project that is not found, or an error, skips it.
DaProject ==
  /\ pc = "da_proj" /\ da.i < da.n
  /\ \E lk \in LookupOutcomes, nb \in 0..MaxTBoards, readOk \in BOOLEAN :
       IF lk = "found" /\ readOk
       THEN /\ da' = [da EXCEPT !.nBoards = nb, !.bi = 0]
            /\ pc' = "da_board"
       ELSE /\ da' = [da EXCEPT !.i = @ + 1]
            /\ pc' = "da_proj"
  /\ UNCHANGED <<entry, mv, readerVars, migVars, db, dp>>

\* client.py:786-788: delete_board_with_contents for the next board.
DaBoard ==
  /\ pc = "da_board" /\ da.bi < da.nBoards
  /\ db' = [NoDb EXCEPT !.caller = "all"]
  /\ da' = [da EXCEPT !.nested = TRUE]
  /\ pc' = "db_lookup"
  /\ UNCHANGED <<entry, mv, readerVars, migVars, dp>>

\* end of the loop at client.py:786: next project.
DaBoardsDone ==
  /\ pc = "da_board" /\ AllAttempted(da.bi, da.nBoards)
  /\ da' = [da EXCEPT !.i = @ + 1, !.nBoards = 0, !.bi = 0,
                      !.missedBoards = @ + (da.nBoards - da.bi)]
  /\ pc' = "da_proj"
  /\ UNCHANGED <<entry, mv, readerVars, migVars, db, dp>>

\* client.py:796-802: after the first pass, get_projects() again.
DaRelist ==
  /\ pc = "da_proj" /\ AllAttempted(da.i, da.n)
  /\ \E n \in 0..MaxTProjects : da' = [da EXCEPT !.phase = 2, !.n = n, !.i = 0]
  /\ pc' = "da_proj2"
  /\ UNCHANGED <<entry, mv, readerVars, migVars, db, dp>>

\* client.py:804-806: delete_project for the next project.
DaDeleteProject ==
  /\ pc = "da_proj2" /\ da.i < da.n
  /\ dp' = NoDp
  /\ da' = [da EXCEPT !.nested = TRUE]
  /\ pc' = "dp_lookup"
  /\ UNCHANGED <<entry, mv, readerVars, migVars, db>>

\* client.py:810-811: return True.
DaDone ==
  /\ pc = "da_proj2" /\ AllAttempted(da.i, da.n)
  /\ da' = [da EXCEPT !.missedProjects = da.n - da.i,
                      !.ret = DeleteAllResult(da.failed)]
  /\ pc' = DeleteAllReturn
  /\ UNCHANGED <<entry, mv, readerVars, migVars, db, dp>>

\* -------------------------------------------------------------- discovery
\* src/kaiten2planka/discovery/kaiten_client.py: the paginated readers
\* list_kaiten_projects and list_kaiten_cards are generators over the pages
\* of one source collection.  The collection is srv; the item j of page p
\* has the id 10 * p + j; a page behind the last one is empty.
PageItems(s, p) ==
  IF p \in 1..Len(s) THEN [j \in 1..s[p] |-> 10 * p + j] ELSE <<>>

\* The values a response may carry: the quota that is left around the
\* threshold, the reset time relative to the clock, the number of pages.
Remainings  == {Missing, 0, 9, 10}
ResetTimes  == {Missing, -5, 1, 5}
TotalPages  == {Missing} \cup (0..(MaxPages + 1))
RateLimitThreshold == 10

\* _handle_rate_limit (kaiten_client.py:14-23): the seconds slept for a
\* response, 0 when it does not sleep.
RateLimitWait_mut(rem, rst) ==
  IF rem # Missing /\ rem < RateLimitThreshold /\ rst # Missing
  THEN rst
  ELSE 0

RateLimitWait(rem, rst) ==
  IF rem # Missing /\ rem < RateLimitThreshold /\ rst # Missing
  THEN (IF rst > 1 THEN rst ELSE 1)
  ELSE 0

\* kaiten_client.py:62-64, 126-128:
\* page >= pagination.get('total_pages', 1)
LastPage_mut(p, tp) == p > (IF tp = Missing THEN 1 ELSE tp)

LastPage(p, tp) == p >= (IF tp = Missing THEN 1 ELSE tp)

ReaderInit ==
  /\ srv = <<>> /\ page = 1 /\ data = <<>> /\ idx = 0
  /\ total_pages = Missing /\ remaining = Missing /\ reset_time = Missing
  /\ wait_time = 0 /\ yielded = <<>>

\* kaiten_client.py:44-49, 68-70 (104-113, 132-134): request the page; a
\* failed request (raise_for_status included) is logged and raised again;
\* else the response is there, with its headers and its body.
PageRequest ==
  /\ pc = "page_request"
  /\ \E ok \in BOOLEAN, rem \in Remainings, rst \in ResetTimes, tp \in TotalPages :
       IF ~ok
       THEN /\ pc' = "raised"
            /\ UNCHANGED <<data, idx, total_pages, remaining, reset_time,
                           wait_time>>
       ELSE /\ remaining' = rem /\ reset_time' = rst /\ total_pages' = tp
            /\ wait_time' = 0
            /\ data' = PageItems(srv, page)
            /\ idx' = 0
            /\ pc' = "page_response"
  /\ UNCHANGED <<entry, srv, page, yielded, migVars, cleanVars>>

\* kaiten_client.py:50-56 (114-120): _handle_rate_limit sleeps when it has
\* to; then an empty page ends the iteration.
PageRateLimit ==
  /\ pc = "page_response"
  /\ wait_time' = RateLimitWait(remaining, reset_time)
  /\ pc' = IF data = <<>> THEN "done" ELSE "page_yield"
  /\ UNCHANGED <<entry, srv, page, data, idx, total_pages, remaining,
                 reset_time, yielded, migVars, cleanVars>>

\* kaiten_client.py:58-59 (122-123): yield the next item of the page.
PageYield ==
  /\ pc = "page_yield" /\ idx < Len(data)
  /\ yielded' = Append(yielded, data[idx + 1])
  /\ idx' = idx + 1
  /\ UNCHANGED <<ctlVars, srv, page, data, total_pages, remaining, reset_time,
                 wait_time, migVars, cleanVars>>

\* kaiten_client.py:61-66 (125-130): after the items of the page, stop when
\* the page number has reached total_pages, else take the next page.
PageAdvance ==
  /\ pc = "page_yield" /\ idx = Len(data)
  /\ IF LastPage(page, total_pages)
     THEN pc' = "done" /\ page' = page
     ELSE pc' = "page_request" /\ page' = page + 1
  /\ UNCHANGED <<entry, srv, data, idx, total_pages, remaining, reset_time,
                 wait_time, yielded, migVars, cleanVars>>

\* ------------------------------------------------------- specifications
UsersNext == UsersStart \/ UserSkip \/ UserCreate \/ UserRaise \/ UsersDone

ChecklistsNext == ChecklistsStart \/ ChecklistCreate \/ ItemCreate \/ ItemsDone
                  \/ ChecklistsDone \/ ChecklistsReturn

AttachmentsNext == AttachmentsStart \/ AttachmentSkip \/ AttachmentFetch
                   \/ AttachmentOversize \/ AttachmentUpload \/ AttachmentsDone

TagsNext == TagsStart \/ TagCreate \/ TagRaise \/ TagsDone

CardSubNext == ChecklistsNext \/ AttachmentsNext
               \/ CommentsStart \/ CommentStep \/ CommentsDone
               \/ LinksStart \/ LinkStep \/ LinksDone

BoardNext == GetColumns \/ ColumnCreate \/ ColumnRaise \/ CreateDefaultList
             \/ ColumnsMapped \/ GetCards \/ CardCreate \/ CardRaise \/ CardsDone
             \/ BoardReturn \/ BoardRaise \/ CardSubNext

Next == UsersNext \/ GetSpaces \/ SpaceCreateProject \/ GetBoards
           \/ BoardCreate \/ BoardsDone \/ SpacesDone \/ BoardNext

\* migrate_all() on a fresh migrator.
Init ==
  /\ pc = "users" /\ entry = "migrate_all"
  /\ plankaUsers \in SUBSET {TargetUser(e) : e \in Emails}
  /\ UserInit /\ SpaceInit
  /\ planka_board_id = None /\ srcCols = 0 /\ srcCards = 0
  /\ BoardInit /\ planka_card_id = None /\ SubInit /\ InstInit
  /\ TargetInit /\ CleanInit /\ ReaderInit

Spec == Init /\ [][Next]_vars

\* migrate_users() on a fresh migrator.
InitUsers ==
  /\ pc = "users" /\ entry = "migrate_users"
  /\ plankaUsers \in SUBSET {TargetUser(e) : e \in Emails}
  /\ UserInit /\ SpaceInit
  /\ planka_board_id = None /\ srcCols = 0 /\ srcCards = 0
  /\ BoardInit /\ planka_card_id = None /\ SubInit /\ InstInit
  /\ TargetInit /\ CleanInit /\ ReaderInit

SpecUsers == InitUsers /\ [][UsersNext]_vars

\* migrate_lists_and_cards(kaiten_board_id, planka_board_id) on a board the
\* target has just created (id 1, no list yet).
InitBoard ==
  /\ pc = "columns" /\ entry = "migrate_lists_and_cards"
  /\ plankaUsers = {}
  /\ UserInit /\ SpaceInit
  /\ planka_board_id = BoardId(1)
  /\ srcCols \in 0..MaxCols /\ srcCards \in 0..MaxCards
  /\ BoardInit /\ planka_card_id = None /\ SubInit /\ InstInit
  /\ TargetInit /\ CleanInit /\ ReaderInit

SpecBoard == InitBoard /\ [][BoardNext]_vars

\* migrate_checklists(kaiten_card_id, planka_card_id) on an existing card.
InitChecklists ==
  /\ pc = "checklists" /\ entry = "migrate_checklists"
  /\ plankaUsers = {}
  /\ UserInit /\ SpaceInit
  /\ planka_board_id = None /\ srcCols = 0 /\ srcCards = 0
  /\ BoardInit /\ planka_card_id \in {None, CardId(1)} /\ SubInit /\ InstInit
  /\ TargetInit /\ CleanInit /\ ReaderInit

SpecChecklists == InitChecklists /\ [][ChecklistsNext]_vars

\* migrate_attachments(kaiten_card_id, planka_card_id) on an existing card.
InitAttachments ==
  /\ pc = "attachments" /\ entry = "migrate_attachments"
  /\ plankaUsers = {}
  /\ UserInit /\ SpaceInit
  /\ planka_board_id = None /\ srcCols = 0 /\ srcCards = 0
  /\ BoardInit /\ planka_card_id = CardId(1) /\ SubInit /\ InstInit
  /\ TargetInit /\ CleanInit /\ ReaderInit

SpecAttachments == InitAttachments /\ [][AttachmentsNext]_vars

\* A caller that invokes up to MaxCalls operations, one after the other, on
\* one fresh migrator.
InitInstance ==
  /\ pc = "idle" /\ entry = "instance"
  /\ plankaUsers = {}
  /\ UserInit /\ SpaceInit
  /\ planka_board_id = None /\ srcCols = 0 /\ srcCards = 0
  /\ BoardInit /\ planka_card_id = None /\ SubInit /\ InstInit
  /\ TargetInit /\ CleanInit /\ ReaderInit

InstanceNext == Invoke \/ UsersNext \/ TagsNext \/ BoardCreate \/ BoardsDone
                \/ BoardNext

SpecInstance == InitInstance /\ [][InstanceNext]_vars

\* A caller that runs migrate_all() up to MaxCalls times, one run after the
\* other and without cleanup in between, on one fresh migrator and on a
\* source of one element of each kind.
InitRuns ==
  /\ pc = "idle" /\ entry = "runs"
  /\ plankaUsers = {}
  /\ UserInit /\ SpaceInit
  /\ planka_board_id = None /\ srcCols = 0 /\ srcCards = 0
  /\ BoardInit /\ planka_card_id = None /\ SubInit /\ InstInit
  /\ TargetInit /\ CleanInit /\ ReaderInit

RunsNext == InvokeAll \/ Next

\* migrate_space_data(project_id, kaiten_boards) on a fresh migrator, with
\* the id of an existing project or None, and 1..MaxBoards source boards of
\* at most one column and one card each.
InitSpace ==
  /\ pc = "board_loop" /\ entry = "migrate_space_data"
  /\ plankaUsers = {}
  /\ UserInit
  /\ nSpaces = 0 /\ si = 0 /\ subtreeTouched = FALSE
  /\ project \in {[has |-> TRUE, id |-> ProjectId(1)], [has |-> TRUE, id |-> None]}
  /\ nBoards \in 1..MaxBoards /\ bi = 0 /\ boardCalls = 0 /\ boardLog = <<>>
  /\ planka_board_id = None /\ srcCols = 0 /\ srcCards = 0
  /\ BoardInit /\ planka_card_id = None /\ SubInit /\ InstInit
  /\ TargetInit /\ CleanInit /\ ReaderInit

SpaceNext == BoardCreate \/ BoardsDone \/ BoardNext

SpecSpace == InitSpace /\ [][SpaceNext]_vars

SpecRuns == InitRuns /\ [][RunsNext]_vars

\* One cleanup call on a client: delete_board_with_contents(board_id),
\* delete_project(project_id) or delete_all_boards_and_projects().
InitCleanup ==
  /\ entry \in {"delete_board_with_contents", "delete_project",
                "delete_all_boards_and_projects"}
  /\ pc = (IF entry = "delete_board_with_contents" THEN "db_lookup"
           ELSE IF entry = "delete_project" THEN "dp_lookup" ELSE "da_start")
  /\ plankaUsers = {}
  /\ UserInit /\ SpaceInit
  /\ planka_board_id = None /\ srcCols = 0 /\ srcCards = 0
  /\ BoardInit /\ planka_card_id = None /\ SubInit /\ InstInit /\ TargetInit
  /\ db = [NoDb EXCEPT !.caller = IF entry = "delete_board_with_contents"
                                  THEN "outside" ELSE "none"]
  /\ dp = NoDp /\ da = NoDa /\ mv = NoMv /\ ReaderInit

CleanupNext == DbLookup \/ DbReadCards \/ DbDeleteCard \/ DbDeleteList
               \/ DbDeleteBoard \/ DbReturn
               \/ DpLookup \/ DpBoard \/ DpDelete \/ DpRetry \/ DpRetryBoard
               \/ DpRetryDelete \/ DpReturn
               \/ DaStart \/ DaProject \/ DaBoard \/ DaBoardsDone \/ DaRelist
               \/ DaDeleteProject \/ DaDone

SpecCleanup == InitCleanup /\ [][CleanupNext]_vars

\* ------------------------------------------------------------------ main
\* main.py:39: the first call main() makes on the target.
MainStart_mut == "spaces"

MainStart == "da_start"

\* main.py:39-51: 'if not planka_client.delete_all_boards_and_projects():
\* return'; else get_projects() is read for a log record and main goes on to
\* get_spaces (main.py:59).  Of the cleanup call only the returned value is
\* left (and the note that it made a nested delete call).
MainCheck ==
  /\ pc = "main_check"
  /\ pc' = IF da.ret = "True" THEN "spaces" ELSE "done"
  /\ da' = [NoDa EXCEPT !.ret = da.ret, !.nested = da.nested]
  /\ db' = NoDb /\ dp' = NoDp
  /\ UNCHANGED <<entry, mv, readerVars, migVars>>

\* main() on a target that holds up to MaxTProjects projects and a source
\* of at most one element of each kind.  main.py:59-97 is the space loop of
\* migrate_all (migrator.py:383-419) with migrate_space_data called on a
\* fresh migrator; migrate_users is not called (main.py:56).
InitMain ==
  /\ pc = MainStart /\ entry = "main"
  /\ plankaUsers = {}
  /\ UserInit /\ SpaceInit
  /\ planka_board_id = None /\ srcCols = 0 /\ srcCards = 0
  /\ BoardInit /\ planka_card_id = None /\ SubInit /\ InstInit
  /\ TargetInit /\ CleanInit /\ ReaderInit

MainNext == CleanupNext \/ MainCheck \/ GetSpaces \/ SpaceCreateProject
            \/ GetBoards \/ BoardCreate \/ BoardsDone \/ SpacesDone
            \/ BoardNext

SpecMain == InitMain /\ [][MainNext]_vars

\* ------------------------------------------- move_board_with_content
\* manage_projects.py:275-433.  The helpers get_board_details,
\* create_board_in_project, create_list_in_board and create_card_in_list
\* (manage_projects.py:89-243) give the JSON of the response on 200/201 and
\* None on every other answer or error: "ok" = JSON with item.id, "malformed"
\* = JSON without it, "fail" = None.
HelperOutcomes == {"ok", "malformed", "fail"}

\* manage_projects.py:245-272: delete_board is True on 200/204 and False on
\* every other status and on every error.
DeleteOutcomes == {"ok", "http_error", "exc"}
delete_board_mut(o) == "False"

delete_board(o) == IF o = "ok" THEN "True" ELSE "False"

\* manage_projects.py:393: success_threshold = 0.7, in tenths.
SuccessThresholdTenths == 7

\* manage_projects.py:395-407: list_success_rate = lists_created/len(lists)
\* (1.0 without lists), card_success_rate = created_cards/len(cards) (1.0
\* without cards), overall_success = their mean; the test
\* overall_success < success_threshold, in exact arithmetic:
\* (a/b + c/d)/2 < t/10  <=>  10(ad + cb) < 2t*bd.
OverallBelowThreshold(lists_created, nl, created_cards, nc) ==
  LET a == IF nl > 0 THEN lists_created ELSE 1
      b == IF nl > 0 THEN nl ELSE 1
      c == IF nc > 0 THEN created_cards ELSE 1
      d == IF nc > 0 THEN nc ELSE 1
  IN 10 * (a * d + c * b) < 2 * SuccessThresholdTenths * b * d

MvFrame == UNCHANGED <<entry, readerVars, migVars, db, dp, da>>

\* manage_projects.py:291-294: read the board; None ends the call with False.
MvDetails ==
  /\ pc = "mv_details"
  /\ \E got \in {"ok", "fail"}, nl \in 0..MaxTLists, nc \in 0..MaxTCards :
       IF got = "ok"
       THEN /\ mv' = [mv EXCEPT !.nLists = nl, !.nCards = nc]
            /\ pc' = "mv_board"
       ELSE /\ mv' = [mv EXCEPT !.exit = "no_details", !.ret = "False"]
            /\ pc' = "done"
  /\ MvFrame

\* manage_projects.py:303-308: create the new board; None ends the call
\* with False, a response without item.id raises KeyError for the handler at
\* manage_projects.py:431.
MvCreateBoard ==
  /\ pc = "mv_board"
  /\ \E o \in HelperOutcomes :
       IF o = "ok"
       THEN /\ mv' = [mv EXCEPT !.new_board = "created"]
            /\ pc' = "mv_list"
       ELSE /\ mv' = [mv EXCEPT !.new_board = IF o = "malformed" THEN "created"
                                              ELSE "none",
                                !.exit = IF o = "malformed" THEN "raised"
                                         ELSE "no_board",
                                !.ret = "False"]
            /\ pc' = "done"
  /\ MvFrame

\* manage_projects.py:323-345: create the next list; a truthy result is
\* entered in list_mapping and counted, None is logged.
MvCreateList ==
  /\ pc = "mv_list" /\ mv.li < mv.nLists
  /\ \E o \in HelperOutcomes :
       IF o = "ok"
       THEN /\ mv' = [mv EXCEPT !.li = @ + 1,
                                !.list_mapping = @ \cup {mv.li + 1},
                                !.lists_created = @ + 1]
            /\ pc' = "mv_list"
       ELSE IF o = "fail"
       THEN /\ mv' = [mv EXCEPT !.li = @ + 1]
            /\ pc' = "mv_list"
       ELSE /\ mv' = [mv EXCEPT !.exit = "raised", !.ret = "False"]
            /\ pc' = "done"
  /\ MvFrame

\* manage_projects.py:348-352: there are lists and none was created: the new
\* board is deleted and the call ends with False.
MvNoListCreated ==
  /\ pc = "mv_list" /\ mv.li = mv.nLists
  /\ mv.nLists > 0 /\ mv.lists_created = 0
  /\ \E o \in DeleteOutcomes :
       mv' = [mv EXCEPT !.new_board = IF delete_board(o) = "True"
                                      THEN "deleted" ELSE @,
                        !.exit = "no_list", !.ret = "False"]
  /\ pc' = "done"
  /\ MvFrame

MvListsDone ==
  /\ pc = "mv_list" /\ mv.li = mv.nLists
  /\ ~(mv.nLists > 0 /\ mv.lists_created = 0)
  /\ pc' = "mv_card"
  /\ mv' = mv
  /\ MvFrame

\* manage_projects.py:367-386: the next card, whose listId is one of the
\* lists of the board or (0) none of them: with a mapping create_card_in_list
\* is called and a truthy result counted, without one the card is skipped.
MvCard ==
  /\ pc = "mv_card" /\ mv.ci < mv.nCards
  /\ \E listId \in 0..mv.nLists, o \in {"ok", "fail"} :
       mv' = IF listId \in mv.list_mapping
             THEN [mv EXCEPT !.ci = @ + 1,
                             !.created_cards = IF o = "ok" THEN @ + 1 ELSE @]
             ELSE [mv EXCEPT !.ci = @ + 1, !.skipped_cards = @ + 1]
  /\ pc' = "mv_card"
  /\ MvFrame

\* manage_projects.py:392-416: below the threshold the call ends with False
\* and both boards are kept.
MvCheck ==
  /\ pc = "mv_card" /\ mv.ci = mv.nCards
  /\ IF OverallBelowThreshold(mv.lists_created, mv.nLists,
                              mv.created_cards, mv.nCards)
     THEN /\ mv' = [mv EXCEPT !.exit = "below_threshold", !.ret = "False"]
          /\ pc' = "done"
     ELSE IF mv.delete_source
     THEN mv' = mv /\ pc' = "mv_delete"
     ELSE /\ mv' = [mv EXCEPT !.exit = "kept", !.ret = "True"]
          /\ pc' = "done"
  /\ MvFrame

\* manage_projects.py:419-429: delete the source board; False from
\* delete_board ends the call with False.
MvDeleteSource ==
  /\ pc = "mv_delete"
  /\ \E o \in DeleteOutcomes :
       mv' = [mv EXCEPT !.sourceDeleted = (o = "ok"),
                        !.exit = IF delete_board(o) = "True" THEN "moved"
                                 ELSE "delete_failed",
                        !.ret = delete_board(o)]
  /\ pc' = "done"
  /\ MvFrame

\* move_board_with_content(planka, board, target_project, prefix,
\* delete_source) on a source board of up to MaxTLists lists and MaxTCards
\* cards.
InitMove ==
  /\ pc = "mv_details" /\ entry = "move_board_with_content"
  /\ plankaUsers = {}
  /\ UserInit /\ SpaceInit
  /\ planka_board_id = None /\ srcCols = 0 /\ srcCards = 0
  /\ BoardInit /\ planka_card_id = None /\ SubInit /\ InstInit
  /\ TargetInit /\ db = NoDb /\ dp = NoDp /\ da = NoDa
  /\ mv \in {[NoMv EXCEPT !.delete_source = f] : f \in BOOLEAN}
  /\ ReaderInit

MoveNext == MvDetails \/ MvCreateBoard \/ MvCreateList \/ MvNoListCreated
            \/ MvListsDone \/ MvCard \/ MvCheck \/ MvDeleteSource

SpecMove == InitMove /\ [][MoveNext]_vars

\* One iteration over list_kaiten_projects(session, base_url) or
\* list_kaiten_cards(session, base_url, ...) by a consumer that takes every
\* item, on a collection of up to MaxPages pages.
InitPager ==
  /\ entry \in {"list_kaiten_projects", "list_kaiten_cards"}
  /\ pc = "page_request"
  /\ plankaUsers = {}
  /\ UserInit /\ SpaceInit
  /\ planka_board_id = None /\ srcCols = 0 /\ srcCards = 0
  /\ BoardInit /\ planka_card_id = None /\ SubInit /\ InstInit
  /\ TargetInit /\ CleanInit
  /\ \E n \in 0..MaxPages : srv \in [1..n -> 0..MaxPerPage]
  /\ page = 1 /\ data = <<>> /\ idx = 0
  /\ total_pages = Missing /\ remaining = Missing /\ reset_time = Missing
  /\ wait_time = 0 /\ yielded = <<>>

PagerNext == PageRequest \/ PageRateLimit \/ PageYield \/ PageAdvance

SpecPager == InitPager /\ [][PagerNext]_vars

\* The consumer keeps iterating and every request returns or raises: the
\* generator is never left waiting for ever.
SpecPagerFair == SpecPager /\ WF_vars(PagerNext)

\* ================================================================ claims
\* States in which migrate_lists_and_cards has returned normally.
BoardReturned == pc = "board_ret"

\* The last iteration of the card loop handled a card.
CardHandled == lastCard # NoCard

\* ---- C1 (SpecBoard)
\* C1: every source card of a board whose column_id has no entry in the
\* board's column-to-list mapping still gets a create_card call, aimed at a
\* list the target created on that same board; the call never returns with
\* the cards of the board left unread.
C1_UnmappedCardNeverDropped ==
  /\ (CardHandled /\ ~lastCard.mapped)
        => (lastCard.issued /\ lastCard.list \in boardLists)
  /\ (BoardReturned /\ ~cardsRead) => srcCards = 0

\* ---- C2 (SpecBoard)
\* C2 as stated: when migrate_lists_and_cards returns, the board holds at
\* least one list.
C2_BoardEndsWithList == BoardReturned => boardLists # {}

\* C2 as amended: when migrate_lists_and_cards returns, the board holds at
\* least one list unless the create_list call for "Default List" itself
\* failed; that call is issued exactly once when no column was mapped (in
\* particular when every create_list call for a column failed) and never
\* otherwise.
C2_ListOrFailedFallback ==
  BoardReturned =>
    /\ (boardLists = {}) <=> (fallback.calls = 1 /\ ~HasIdKey(fallback.result))
    /\ fallback.calls = IF column_to_list_map = <<>> THEN 1 ELSE 0

\* C2 witness: the board has columns, every create_list for a column failed,
\* the fallback list was created and the call has returned.
C2_Witness ==
  /\ BoardReturned /\ nCols > 0 /\ column_to_list_map = <<>>
  /\ fallback.calls = 1 /\ boardLists = {ListId(nCols + 1)}

\* ---- C3 (SpecBoard)
\* C3 as stated: a board whose source has zero columns ends with exactly one
\* list.
C3_ZeroColumnsOneList ==
  (BoardReturned /\ srcCols = 0) => Cardinality(boardLists) = 1

\* C3 as amended: for a board whose source has zero columns exactly one
\* create_list call, the one for "Default List", is issued; when it returns
\* an identifier the board ends with exactly that list and every create_card
\* call of the board aims at it; when it fails the board ends with no list
\* and the cards are not read.
C3_ZeroColumnsDefaultList ==
  srcCols = 0 =>
    /\ BoardReturned =>
         /\ fallback.calls = 1
         /\ fallback.result.id # None => boardLists = {fallback.result.id}
         /\ ~HasIdKey(fallback.result) => (boardLists = {} /\ ~cardsRead)
    /\ (CardHandled /\ lastCard.issued /\ fallback.result.id # None)
         => lastCard.list = fallback.result.id

\* C3 witness: zero columns, the default list exists and the second card of
\* the board has just been sent to it.
C3_Witness ==
  /\ srcCols = 0 /\ boardLists = {ListId(1)} /\ ki >= 1
  /\ CardHandled /\ lastCard.issued /\ lastCard.list = ListId(1)

\* ---- C4 (SpecUsers)
\* C4: in one run of migrate_users at most one create_user call is issued
\* for any e-mail address.
C4_OneCreatePerEmail == \A e \in Emails : userCreates[e] <= 1

\* ---- C5 (SpecUsers)
\* C5: migrate_users issues no create_user call for an e-mail address that a
\* user of the target already has before the run.
C5_NoCreateForExistingEmail ==
  \A u \in plankaUsers : userCreates[u.email] = 0

\* ---- C6 (Spec)
\* C6: when create_project failed or returned a record without an
\* identifier, no create_board, create_list or create_card call is issued
\* for that space.
C6_NoSubtreeWithoutProject == project.id = None => ~subtreeTouched

\* ---- C7 (Spec)
\* C7: a failing user never keeps the later users from their turn, nor
\* migrate_all from reaching the space phase: migrate_all does not end by an
\* error while source users are left.
C7_UserFailureNeverFatal == pc = "raised" => ui = nUsers

\* ---- C8 (SpecBoard)
\* C8: once the card loop has started, migrate_lists_and_cards only ends
\* (by return or by error) when every card of the board had its turn.
C8_CardFailureIsolated ==
  (cardsRead /\ pc \in {"board_ret", "board_exc", "done", "raised"}) => ki = nCards

\* ---- C9 (SpecChecklists)
\* C9: migrate_checklists never ends while a task-list that was created
\* still has items without a creation attempt.
C9_ItemFailureIsolated ==
  (pc \in {"cl_ret", "done"} /\ tl_id # None) => ii = nItems

\* ---- C10 (SpecAttachments)
\* C10: an attachment whose declared content-length or whose size on disk
\* is above 10 MiB gets no upload request, no attachment gets more than one,
\* and the call ends only after every attachment had its turn.
C10_OversizeNeverUploaded ==
  /\ \A a \in {curAtt, lastAtt} :
       /\ a.posts <= 1
       /\ ((a.declared # NoHeader /\ a.declared > MaxAttachmentBytes)
            \/ a.actual > MaxAttachmentBytes) => a.posts = 0
  /\ pc = "done" => ai = nAtt

\* C10 witness: the first of two attachments came without content-length
\* header and is above the ceiling on disk; it was skipped without an upload
\* request, its temporary file is gone and the loop is at the second one.
C10_Witness ==
  /\ pc = "att_loop" /\ nAtt = 2 /\ ai = 1
  /\ lastAtt.dl = "ok" /\ lastAtt.declared = NoHeader
  /\ lastAtt.actual > MaxAttachmentBytes /\ lastAtt.posts = 0 /\ tmpFiles = 0

\* ---- C11 (SpecAttachments)
\* C11: when migrate_attachments has returned, no temporary file it created
\* is left on disk, whatever happened to each attachment (upload, size-skip,
\* failed upload, error while writing the file).
C11_NoTempFileLeft == pc = "done" => tmpFiles = 0

\* ---- C12 (SpecBoard)
\* The mapping holds, for the card's column, the list created for it.
MappedToOwnList(card) ==
  \E j \in 1..Len(column_to_list_map) :
     column_to_list_map[j] = <<card.column_id, ListId(card.column_id)>>

\* C12: lists are created in column order, so a mapping entry of column c
\* names the list created for c; a card whose column_id is mapped to such a
\* list has its create_card call issued for exactly that list.
C12_MappedCardInOwnList ==
  /\ \A j \in 1..Len(column_to_list_map) :
       /\ column_to_list_map[j][2] \in {None, ListId(column_to_list_map[j][1])}
       /\ \A k \in 1..Len(column_to_list_map) :
            j < k => column_to_list_map[j][1] < column_to_list_map[k][1]
  /\ (CardHandled /\ MappedToOwnList(lastCard))
       => /\ lastCard.list = ListId(lastCard.column_id)
          /\ lastCard.list \in boardLists
          /\ lastCard.hasTitle => lastCard.issued

\* C12 witness: two columns are mapped and a card of the second column has
\* been sent to the second list.
C12_Witness ==
  /\ Len(column_to_list_map) = 2 /\ CardHandled /\ lastCard.issued
  /\ lastCard.column_id = 2 /\ lastCard.list = ListId(2)
  /\ MappedToOwnList(lastCard)

\* ---- C13 (SpecBoard)
\* C13: a card whose column_id is none of the board's columns, on a board
\* with at least one created list, has its create_card call issued for the
\* first list of the board, and a warning about the orphaned column
\* reference is logged for it.
C13_OrphanToFirstListWithWarning ==
  (CardHandled /\ lastCard.issued /\ ~lastCard.mapped
     /\ lastCard.column_id \notin {Missing, None} /\ boardLists # {}
     /\ column_to_list_map # <<>> /\ FirstValue(column_to_list_map) # None)
    => /\ lastCard.list = FirstValue(column_to_list_map)
       /\ lastCard.warned

\* ---- C14 (Spec)
\* C14: no create call is issued under an absent parent id: create_board
\* under project id None, create_list under board id None, create_card
\* under list id None, or a sub-migration create under card id None; and the
\* list a card is created in is a list created on its board.
C14_ParentIdsPresent ==
  /\ subtreeTouched => project.id # None
  /\ (pc = "col_loop" /\ ci > 0) => planka_board_id # None
  /\ fallback.calls > 0 => planka_board_id # None
  /\ lastCard.issued => (lastCard.list # None /\ lastCard.list \in boardLists)
  /\ (pc \in {"cl_loop", "item_loop"} /\ cardTaskLists + qi > 0)
        => planka_card_id # None

\* ---- C15 (SpecInstance)
\* A table keeps every entry it has.
WriteOnce(t, tNext) == \A k \in DOMAIN t : t[k] # Missing => tNext[k] = t[k]

\* C15: across the operations invoked on one migrator, an entry of an ID
\* mapping table (users, boards, lists, labels) is never overwritten: a
\* later write for the same source id leaves the first target id in place.
C15_TablesWriteOnce ==
  [][/\ WriteOnce(kaiten_to_planka_user_map, kaiten_to_planka_user_map')
     /\ WriteOnce(kaiten_to_planka_board_map, kaiten_to_planka_board_map')
     /\ WriteOnce(kaiten_to_planka_list_map, kaiten_to_planka_list_map')
     /\ WriteOnce(kaiten_to_planka_label_map, kaiten_to_planka_label_map')]_vars

\* ---- C16 (SpecCleanup)
\* C16 as stated: whenever a list delete is issued every card found in the
\* list had its delete attempt, whenever a board delete is issued every list
\* of the board had one, and whenever a project delete is issued every board
\* of the project had one.
C16_DependencyOrder ==
  db.pendingCards = 0 /\ db.pendingLists = 0 /\ dp.pendingBoards = 0

\* C16 as amended: cards before their list and lists before their board,
\* always; boards before their project for every board the enumeration of
\* delete_project returned: when reading the boards fails no board is
\* visited and the project delete is issued at once; in the retry after a
\* 422 every board read again is visited before the second project delete;
\* delete_all_boards_and_projects calls delete_project only in its second
\* pass.
C16_OrderAmongEnumerated ==
  /\ db.pendingCards = 0 /\ db.pendingLists = 0
  /\ dp.enumOk => dp.pendingBoards = 0
  /\ dp.pendingBoards > 0 => (dp.nBoards = 0 /\ dp.bi = 0)
  /\ dp.deletes >= 1 => dp.bi = dp.nBoards
  /\ dp.deletes = 2 => dp.ri = dp.rn
  /\ (dp # NoDp /\ entry = "delete_all_boards_and_projects") => da.phase = 2

\* C16 witness: delete_project has visited the two boards it read and then
\* deleted the project.
C16_Witness ==
  /\ pc = "dp_ret" /\ dp.exit = "project_delete" /\ dp.enumOk
  /\ dp.nBoards = 2 /\ dp.bi = 2 /\ dp.deletes = 1

\* ---- C17 (SpecCleanup)
\* C17: no 404 on a card or list delete ends the cascade, and whenever the
\* board or the project turns out to be absent (initial lookup, final
\* lookup, final delete, lookup or delete of the 422 retry) the call returns
\* True.
C17_NotFoundIsSuccess ==
  /\ db.exit \notin {"card_error", "list_error"}
  /\ (db.exit \in {"absent_initial", "absent_final"} \/ db.boardOutcome = "404")
       => db.ret = "True"
  /\ dp.exit \in {"absent_initial", "absent_final", "absent_delete",
                  "absent_retry", "absent_retry_delete"}
       => dp.ret = "True"

\* ---- C18 (SpecCleanup)
\* C18 as stated: after a card or list delete that failed with something
\* else than 404 (403 for a list) the board is not deleted by this call.
C18_FailureAbortsBranch == db.childFail => db.boardOutcome = "none"

\* C18 as amended: a failed card or list delete is only logged: the call
\* never ends at a card or list delete, so the remaining cards, the list,
\* the remaining lists and the board are still attempted (unless reading a
\* later list's cards fails); the value returned depends on the deletion of
\* the board alone; and no caller's loop over sibling boards ends early.
C18_FailureIsLoggedOnly ==
  /\ db.exit \notin {"card_error", "list_error"}
  /\ (pc = "db_ret" /\ db.childFail)
       => /\ db.exit \in {"read_error", "absent_final", "relookup_error",
                          "board_delete"}
          /\ db.exit # "read_error" => db.li = db.nLists
  /\ db.exit = "board_delete"
       => (db.ret = "True" <=> db.boardOutcome \in {"ok", "404"})
  /\ dp.exit # "board_error" /\ da.ret # "False"

\* C18 witness: a card or list delete of a board with two lists failed, all
\* lists had their turn, the board was deleted and the call returns True.
C18_Witness ==
  /\ pc = "db_ret" /\ db.childFail /\ ~db.list403 /\ db.nLists = 2 /\ db.li = 2
  /\ db.boardOutcome = "ok" /\ db.ret = "True"

\* ---- C19 (SpecCleanup)
\* C19: a 403 on a list delete is a skip: the call does not end there, the
\* remaining lists and the board are still attempted (unless reading a later
\* list's cards fails), and with the board deleted or already absent the
\* call returns True.
C19_ForbiddenListIsSkipped ==
  db.list403 =>
    /\ db.exit # "list_error"
    /\ (pc = "db_ret" /\ db.exit # "read_error")
         => (db.li = db.nLists /\ db.pendingLists = 0)
    /\ (db.boardOutcome \in {"ok", "404"} \/ db.exit = "absent_final")
         => db.ret = "True"

\* C19 witness: the first of two lists answered 403 and nothing else failed;
\* the second list and the board were deleted and the call returns True.
C19_Witness ==
  /\ pc = "db_ret" /\ db.list403 /\ ~db.childFail
  /\ db.nLists = 2 /\ db.li = 2 /\ db.exit = "board_delete" /\ db.ret = "True"

\* ---- C20 (SpecCleanup)
\* C20: delete_all_boards_and_projects calls delete_board_with_contents for
\* every board of every project it read boards for, then delete_project for
\* every project of the second enumeration; no result of these calls ends a
\* loop early, and the call returns True.
C20_EnumerationNeverCutShort ==
  entry = "delete_all_boards_and_projects" =>
    /\ da.missedBoards = 0 /\ da.missedProjects = 0
    /\ da.ret # "False"
    /\ dp # NoDp => da.phase = 2
    /\ pc = "done" => (da.phase = 2 /\ da.i = da.n /\ da.ret = "True")

\* C20 witness: some delete call returned False and both projects of the
\* second enumeration still had their delete_project call.
C20_Witness ==
  /\ entry = "delete_all_boards_and_projects" /\ pc = "done"
  /\ da.failed /\ da.n = 2 /\ da.i = 2 /\ da.ret = "True"

\* ---- C21 (SpecCleanup)
\* C21: delete_all_boards_and_projects returns True only when no nested
\* delete call has failed: when the deletion of some board or project
\* returned False, it returns False.
C21_FailureReportedAsFalse ==
  (entry = "delete_all_boards_and_projects" /\ pc = "done" /\ da.failed)
     => da.ret = "False"

\* ---- C22 (SpecCleanup)
\* C22: when both enumerations of delete_all_boards_and_projects find no
\* project (the target holds none: it was empty, or a fully successful
\* cleanup has just emptied it), the call returns True and has called neither
\* delete_board_with_contents nor delete_project, so that no delete request
\* was issued.
C22_EmptyTargetNoDelete ==
  (entry = "delete_all_boards_and_projects" /\ pc = "done"
     /\ da.first = 0 /\ da.n = 0)
     => (da.ret = "True" /\ ~da.nested /\ db = NoDb /\ dp = NoDp)

C22_Witness ==
  /\ entry = "delete_all_boards_and_projects" /\ pc = "done"
  /\ da.phase = 2 /\ da.first = 0 /\ da.n = 0 /\ da.ret = "True"

\* ---- C23 (SpecCleanup)
\* The first project delete of this delete_project call was answered 422.
Rejected422 ==
  \/ dp.deletes = 2
  \/ dp.exit \in {"absent_retry", "retry_error", "absent_retry_delete"}

C24_RunReturnsNormally ==
  /\ pc # "raised"
  /\ pc = "done" => si = nSpaces

\* ---- C25 (SpecRuns)
\* The engine is inside the body of the space loop of migrate_all.
InSpaceBody ==
  pc \notin {"idle", "users", "user_loop", "spaces", "space_loop", "done",
             "raised"}

\* C25: a run of migrate_all on an instance and a target that an earlier run
\* has filled creates everything again: every board the loop has passed had
\* its create_board call, whatever kaiten_to_planka_board_map holds; the
\* project and the board that the run fills are the ones it has created
\* itself, next to those of the earlier run; every card with a title has its
\* create_card call.
C25_EveryRunCreatesAnew ==
  /\ pc = "board_loop" => boardCalls = bi
  /\ (InSpaceBody /\ project.id # None)
       => (project.id = FreshId(ProjectId(si + 1)) /\ project.id \in plankaProjects)
  /\ planka_board_id # None
       => (planka_board_id = FreshId(BoardId(bi + 1))
             /\ planka_board_id \in plankaBoards)
  /\ (CardHandled /\ lastCard.hasTitle) => lastCard.issued

\* The second run has created the project, the board, a list and the card of
\* the source a second time; the target holds both copies of the project and
\* of the board.
C25_Witness ==
  /\ calls = 2 /\ pc = "checklists" /\ planka_card_id # None
  /\ boardLists # {}
  /\ planka_board_id = BoardId(1) + 2000
  /\ {ProjectId(1) + 1000, ProjectId(1) + 2000} \subseteq plankaProjects
  /\ {BoardId(1) + 1000, BoardId(1) + 2000} \subseteq plankaBoards

\* ---- C28 (SpecRuns)
\* What every read of the boards of a space, the columns of a board or the
\* cards of a board leaves behind, a failed read included: a list of zero or
\* more elements.
ReadsGiveLists ==
  /\ nBoards \in 0..MaxBoards
  /\ nCols \in {0, srcCols}
  /\ nCards \in {0, srcCards}

\* The step taken from a read: the engine stays in its loops, and with zero
\* results it is at the position it has after an empty list (the next space
\* for the boards, the end of the column loop, the end of the card loop).
ReadStep ==
  /\ pc = "boards" =>
       \/ pc' = "board_loop" /\ nBoards' > 0 /\ si' = si
       \/ pc' = "space_loop" /\ nBoards' = 0 /\ si' = si + 1
  /\ pc = "columns" => (pc' = "col_loop" /\ ci' = 0)
  /\ pc = "cards" => (pc' = "card_loop" /\ ki' = 0)

C29_CreateNeverRaises == pc = "cl_ret" => qi = nChecklists

\* ---- C30 (SpecBoard)
\* C30: in migrate_comments every source comment with a non-empty text
\* handled so far has given exactly one comment on the target card, so that
\* at the end of the loop the card holds as many comments as the source card
\* has comments with text.
C30_OneCommentPerText == pc = "com_loop" => cardComments = withText

\* ---- C26 (SpecPagerFair)
\* The items of the pages 1..k of the collection, in order.
RECURSIVE ConcatPages(_, _)
ConcatPages(s, k) ==
  IF k = 0 THEN <<>> ELSE ConcatPages(s, k - 1) \o PageItems(s, k)

\* What the generator has yielded is the pages before the current one and
\* the first idx items of the current one, nothing skipped, nothing twice.
YieldedInOrder ==
  /\ pc \in {"page_request", "page_response", "raised"}
       => yielded = ConcatPages(srv, page - 1)
  /\ pc = "page_yield"
       => yielded = ConcatPages(srv, page - 1) \o SubSeq(data, 1, idx)
  /\ pc = "done" => yielded = ConcatPages(srv, page)
  /\ \A i, j \in 1..Len(yielded) : i # j => yielded[i] # yielded[j]

\* C26 as stated: the items come in the order of the pages, and the
\* iteration stops only after an empty page or after a page whose number
\* has reached the total_pages that the response reports.
C26_StopsAtEmptyOrReportedTotal ==
  /\ YieldedInOrder
  /\ pc = "done"
       => (data = <<>> \/ (total_pages # Missing /\ page >= total_pages))
  /\ (pc = "page_request" /\ page > 1)
       => (data # <<>> /\ total_pages # Missing /\ page - 1 < total_pages)

\* C26 amended: as above, where a response that reports no total_pages
\* counts as reporting 1, so that the iteration stops after its page; the
\* iteration always ends, normally or by the error of a failed request.
C26_PagesConcatenated ==
  /\ [](/\ YieldedInOrder
        /\ pc = "done"
             => (data = <<>>
                   \/ page >= (IF total_pages = Missing THEN 1 ELSE total_pages))
        /\ (pc = "page_request" /\ page > 1)
             => (data # <<>>
                   /\ page - 1 < (IF total_pages = Missing THEN 1 ELSE total_pages)))
  /\ <>(pc \in {"done", "raised"})

\* Two full pages were yielded and the second one was the last by its
\* total_pages.
C26_Witness ==
  /\ pc = "done" /\ page = 2 /\ total_pages = 2 /\ Len(yielded) = 4
  /\ data # <<>>

\* ---- C27 (SpecPager)
\* The last response has been handled by _handle_rate_limit.
ResponseHandled ==
  pc \in {"page_yield", "done"} \/ (pc = "page_request" /\ page > 1)

\* C27 as stated: after a response that reports a remaining quota below 10
\* the reader has slept, for at least one second and until the reset time,
\* before it issues the next page request.
C27_SleepsWhenQuotaLow ==
  (ResponseHandled /\ remaining # Missing /\ remaining < RateLimitThreshold)
     => /\ wait_time >= 1
        /\ reset_time # Missing => wait_time >= reset_time

\* C27 amended: the reader sleeps when the response reports a remaining
\* quota below 10 and a reset time: then for max(1, reset time - now)
\* seconds, before the items of the page are yielded and before the next
\* page request; while the response is not handled no sleep was done and no
\* request is issued.
C27_SleepsWhenQuotaLowAndResetKnown ==
  /\ (ResponseHandled /\ remaining # Missing /\ remaining < RateLimitThreshold
        /\ reset_time # Missing)
       => wait_time = (IF reset_time > 1 THEN reset_time ELSE 1)
  /\ (ResponseHandled /\ remaining # Missing /\ remaining < RateLimitThreshold
        /\ reset_time = Missing)
       => wait_time = 0
  /\ pc = "page_response" => wait_time = 0

\* The reader is about to request page 2 after a sleep of one second: the
\* first response reported a quota of 9 and a reset time in the past.
C27_Witness ==
  /\ pc = "page_request" /\ page = 2
  /\ remaining = 9 /\ reset_time = -5 /\ wait_time = 1

\* ---- C31 (SpecChecklists)
\* C31: for every source checklist with an id that migrate_checklists has
\* handled, the details were fetched once and create_checklist was called
\* once; create_checklist_item was called once for every item handled.
C31_ChecklistPerDetails ==
  /\ clCalls["create_checklist"] >= clDetails
  /\ clCalls["create_checklist_item"] >= tlTasks

\* ---- C33 (SpecSpace)
\* C33: the create_board calls of migrate_space_data follow the source order,
\* the call for the i-th source board (0-based) passes position i whatever
\* the board's own position field is, and the positions of the boards the
\* target stored are strictly increasing in source order.
C33_PositionIsIndex ==
  /\ \A j \in 1..Len(boardLog) :
       boardLog[j].source = j /\ boardLog[j].position = j - 1
  /\ \A j, k \in 1..Len(boardLog) :
       (j < k /\ boardLog[j].stored /\ boardLog[k].stored)
         => boardLog[j].position < boardLog[k].position

\* two boards were stored whose source positions are in the opposite order
C33_Witness ==
  /\ entry = "migrate_space_data" /\ pc = "done" /\ Len(boardLog) = 2
  /\ boardLog[1].stored /\ boardLog[2].stored
  /\ boardLog[1].srcPosition = 5 /\ boardLog[2].srcPosition = 0

\* ---- C34 (SpecSpace)
\* C34: a board whose create_board call failed gets no list and no card
\* (migrate_lists_and_cards is not entered for it) and no entry in
\* kaiten_to_planka_board_map, and migrate_space_data returns only after
\* create_board was called for every source board, those after it included.
C34_FailedBoardSkippedAlone ==
  /\ (pc \notin {"board_loop", "done"})
       => (boardLog # <<>> /\ boardLog[Len(boardLog)].stored)
  /\ \A j \in 1..Len(boardLog) :
       ~boardLog[j].stored
         => kaiten_to_planka_board_map[SourceBoardId(si, j)] = Missing
  /\ pc = "done" => Len(boardLog) = nBoards

\* the first board failed, the second was created and mapped
C34_Witness ==
  /\ entry = "migrate_space_data" /\ pc = "done" /\ Len(boardLog) = 2
  /\ ~boardLog[1].stored /\ boardLog[2].stored
  /\ kaiten_to_planka_board_map[SourceBoardId(si, 2)] # Missing

\* ---- C35 (Spec)
\* The source entity migrate_all is working on, as <<space, board, card>>
\* (1-based, 0 = none yet at that level): every create call issued in a
\* state is for this entity or for something under it.
Cursor ==
  IF pc \in {"users", "user_loop", "spaces"} THEN <<0, 0, 0>>
  ELSE IF pc = "done" THEN <<nSpaces + 1, 0, 0>>
  ELSE IF pc \in {"space_loop", "boards"} THEN <<si + 1, 0, 0>>
  ELSE IF pc \in {"board_loop", "columns", "col_loop", "cards"}
  THEN <<si + 1, bi + 1, 0>>
  ELSE <<si + 1, bi + 1, ki + 1>>

LexLeq(a, b) ==
  \/ a[1] < b[1]
  \/ a[1] = b[1] /\ a[2] < b[2]
  \/ a[1] = b[1] /\ a[2] = b[2] /\ a[3] <= b[3]

CursorAdvances == LexLeq(Cursor, Cursor')

\* C35: migrate_all never goes back: after a step the space, board and card
\* it issues create calls for is the same as before or a later one in source
\* order, so nothing is created under an earlier one any more.
C35_NoBacktracking == [][CursorAdvances]_vars

\* the second card of the second board of the second space has been created
C35_Witness ==
  /\ entry = "migrate_all" /\ Cursor = <<2, 2, 2>>
  /\ pc = "link_loop" /\ planka_card_id # None

\* ---- C36 (Spec)
\* Where the creations of each kind are issued: users in migrate_users,
\* lists (fallback included) in the first half of migrate_lists_and_cards,
\* checklists, attachments, comments and links in the sub-migrations.
UserPcs == {"users", "user_loop"}
ListPcs == {"columns", "col_loop"}
SubPcs  == {"checklists", "cl_loop", "item_loop", "cl_ret", "attachments",
            "att_loop", "att_file", "comments", "com_loop", "links",
            "link_loop"}

KindOrderStep ==
  /\ pc' \in UserPcs => pc \in UserPcs
  /\ pc' \in ListPcs
       => (pc \in ListPcs \/ (pc = "board_loop" /\ boardCalls' = boardCalls + 1))
  /\ pc' \in SubPcs
       => (pc \in SubPcs \/ (pc = "card_loop" /\ lastCard'.issued /\ ki' = ki))

\* C36: in migrate_all no project or board exists while users are created
\* and the user phase is never entered again; the list creations of a board
\* (fallback included) are entered only from the creation of that board and
\* never after its card loop has begun; the sub-migrations of a card are
\* entered only from the create_card call of that card.
C36_KindsInDependencyOrder ==
  /\ [](pc \in UserPcs => (plankaProjects = {} /\ plankaBoards = {}))
  /\ [][KindOrderStep]_vars

\* users were created, then a board with its fallback list, then a card,
\* whose sub-migrations have reached the links
C36_Witness ==
  /\ entry = "migrate_all" /\ pc = "link_loop" /\ fallback.calls = 1
  /\ planka_card_id # None
  /\ \E u \in SourceUserIds : kaiten_to_planka_user_map[u] # Missing

\* ---- C37 (SpecRuns)
\* The target only gains entities in a step: every project and board it
\* holds is still there, and so is every list of the board being migrated.
TargetGrows ==
  /\ plankaProjects \subseteq plankaProjects'
  /\ plankaBoards \subseteq plankaBoards'
  /\ (pc # "board_loop" /\ pc' \notin {"board_loop", "users"})
       => boardLists \subseteq boardLists'

\* C37: while migrate_all runs no cleanup operation of the client is ever
\* entered and no step removes a project, board or list the target holds,
\* whatever fails afterwards.
C37_NoRollback ==
  /\ [](db = NoDb /\ dp = NoDp /\ da = NoDa)
  /\ [][TargetGrows]_vars

\* the project of the space is still held after the creation of its board
\* failed, and so is the project of the run before
C37_Witness ==
  /\ entry = "runs" /\ calls = 2 /\ pc = "idle"
  /\ boardLog # <<>> /\ ~boardLog[1].stored
  /\ {ProjectId(1) + 1000, ProjectId(1) + 2000} \subseteq plankaProjects

\* ---- C38 (SpecMain)
\* Where main() is inside delete_all_boards_and_projects or looking at its
\* result.
CleanupPcs == {"da_start", "da_proj", "da_board", "da_proj2", "db_lookup",
               "db_list", "db_card", "db_ret", "dp_lookup", "dp_board",
               "dp_retry", "dp_retry_board", "dp_ret", "main_check"}

NothingCreated ==
  /\ plankaProjects = {} /\ plankaBoards = {} /\ boardLists = {}
  /\ project = EmptyDict /\ boardCalls = 0

\* C38: in main() nothing has been created while the cleanup runs, main
\* reads the source and creates only after delete_all_boards_and_projects
\* returned True, nothing is created when it returned anything else, and the
\* cleanup is never entered again once main has gone on.
C38_CleanupBeforeCreates ==
  /\ [](/\ pc \in CleanupPcs => NothingCreated
        /\ pc \notin (CleanupPcs \cup {"done"}) => da.ret = "True"
        /\ da.ret # "True" => NothingCreated)
  /\ [][pc \notin CleanupPcs => pc' \notin CleanupPcs]_vars

\* the cleanup made a nested delete call and returned True, then main
\* created a project and a board
C38_Witness ==
  /\ entry = "main" /\ pc = "done" /\ da.ret = "True" /\ da.nested
  /\ plankaProjects # {} /\ plankaBoards # {}

\* ---- C32 (SpecMove)
\* C32: whenever move_board_with_content has deleted the source board, every
\* list and every card of the source board was copied to the new board.
C32_DeleteOnlyAfterFullCopy ==
  mv.sourceDeleted
    => (mv.lists_created = mv.nLists /\ mv.created_cards = mv.nCards)

\* ---- C39 (SpecMove)
\* C39: whenever move_board_with_content has returned False, the source
\* board has not been deleted by the call.
C39_FalseKeepsSource == mv.ret = "False" => ~mv.sourceDeleted

\* the copy was complete, the delete of the source board was refused and the
\* call returned False
C39_Witness ==
  /\ pc = "done" /\ mv.ret = "False" /\ mv.exit = "delete_failed"
  /\ mv.nLists = 2 /\ mv.lists_created = 2 /\ mv.created_cards = mv.nCards

====
